---- MODULE Spec2Model ----
(***************************************************************************)
(* Model of the cxm_iac_crawler pipeline: redaction of terraform-show      *)
(* resources (unnest_tf_show.py), projection (main.py) and batched         *)
(* delivery with bounded retry (send_to_cxm.py).                           *)
(*                                                                         *)
(* JSON values are tagged records ("nodes"): k names the Python type.      *)
(* Dictionaries the code indexes by fixed keys (a resource, a module) are  *)
(* TLA+ functions from key strings to nodes; key presence is DOMAIN.       *)
(***************************************************************************)
EXTENDS Integers, Sequences, FiniteSets, TLC

VARIABLES
    SENSITIVE_FIELDS,   \* unnest_tf_show.SENSITIVE_FIELDS (module level)
    resource,           \* the resource handed to remove_sensitive_data
    redacted,           \* what remove_sensitive_data returned (or raised)
    again,              \* remove_sensitive_recursive(redacted.values, {})
    rpc,                \* position of the redaction run
    resource_list,      \* select_essential_data: the input records
    sel_pos,            \* how many input records the generator has pulled
    projected,          \* the records select_essential_data has yielded
    ppc,                \* position of the projection generator
    module_tree,        \* recursive_unnest_child_modules: the root module
    frames,             \* the stack of active generator frames
    flat,               \* the resources the flattening has yielded
    fpc,                \* position of the flattening generator
    CXM_API_KEY,        \* send_to_cxm.CXM_API_KEY (module level)
    CXM_API_ENDPOINT,   \* send_to_cxm.CXM_API_ENDPOINT (module level)
    CXM_MAX_RETRIES,    \* the integer in the environment variable CXM_MAX_RETRIES
    MAX_RETRIES,        \* send_to_cxm.MAX_RETRIES (module level)
    dry_run,            \* send_data_to_cxm(dry_run)
    iterable,           \* the record stream handed to _batch_generator
    it_pos,             \* how many records have been pulled from the stream
    batch_size,         \* _batch_generator(batch_size)
    batches,            \* the batches _batch_generator has yielded
    batch,              \* send_data_to_cxm: the batch of the current iteration
    batch_idx,          \* send_data_to_cxm: enumerate() index of that batch
    total_resources,    \* send_data_to_cxm: total_resources
    total_batches,      \* send_data_to_cxm: total_batches
    attempt,            \* _send_single_batch: attempt
    calls,              \* the calls of _send_single_batch, with their outcome
    posts,              \* the requests.post calls made, with their outcome
    exc,                \* the exception send_data_to_cxm raised, if any
    spc,                \* position of send_data_to_cxm / _batch_generator
    iter_exc,           \* the exception the record stream raises at its end, if any
    scan_metadata,      \* send_data_to_cxm(scan_metadata)
    platform,           \* process_repository(platform)
    entry_points,       \* process_repository: what compute_terraform_show gives per entry point
    ep_idx,             \* process_repository: entry points taken from the loop
    entry_points_found,     \* process_repository: entry_points_found
    entry_points_processed, \* process_repository: entry_points_processed
    errors,             \* process_repository: errors
    metadata_created,   \* how many times create_scan_metadata has returned
    send_calls,         \* the calls of send_data_to_cxm, with their outcome
    repo_exc,           \* the exception process_repository raised, if any
    mpc,                \* position of process_repository
    show_data,          \* process_show_output(show_output)
    unnested,           \* what unnest_tf_show(show_data) yields, driven to its end
    selected,           \* what select_essential_data yields over it, driven to its end
    qpc,                \* position of the pipeline run
    repository_path,    \* cli.main: what args.repository_path is (a directory, a file, missing)
    platform_hint,      \* cli.main: args.platform ("" when not given)
    exit_code,          \* what main returned (-1 while it runs)
    cpc,                \* position of main
    root_path,          \* find_terraform_lock_files: root_dir, as path components
    root_kind,          \* what root_dir is (a directory, a file, missing)
    lock_files,         \* the paths of the .terraform.lock.hcl files under the root
    unvisited,          \* the lock files rglob has not given yet
    yielded,            \* the directories the generator has yielded
    find_exc,           \* the exception of find_terraform_lock_files
    gpc                 \* position of the generator

redactVars == <<SENSITIVE_FIELDS, resource, redacted, again, rpc>>
projectVars == <<resource_list, sel_pos, projected, ppc>>
flattenVars == <<module_tree, frames, flat, fpc>>
sendVars == <<CXM_API_KEY, CXM_API_ENDPOINT, CXM_MAX_RETRIES, MAX_RETRIES, dry_run, iterable, it_pos,
              batch_size, batches, batch, batch_idx, total_resources, total_batches,
              attempt, calls, posts, exc, spc, iter_exc, scan_metadata>>
repoVars == <<platform, entry_points, ep_idx, entry_points_found, entry_points_processed,
              errors, metadata_created, send_calls, repo_exc, mpc>>
pipeVars == <<show_data, unnested, selected, qpc>>
cliVars == <<repository_path, platform_hint, exit_code, cpc>>
findVars == <<root_path, root_kind, lock_files, unvisited, yielded, find_exc, gpc>>
vars == <<SENSITIVE_FIELDS, resource, redacted, again, rpc,
          resource_list, sel_pos, projected, ppc,
          module_tree, frames, flat, fpc,
          CXM_API_KEY, CXM_API_ENDPOINT, CXM_MAX_RETRIES, MAX_RETRIES, dry_run, iterable, it_pos,
          batch_size, batches, batch, batch_idx, total_resources, total_batches,
          attempt, calls, posts, exc, spc, iter_exc, scan_metadata,
          platform, entry_points, ep_idx, entry_points_found, entry_points_processed,
          errors, metadata_created, send_calls, repo_exc, mpc,
          show_data, unnested, selected, qpc,
          repository_path, platform_hint, exit_code, cpc,
          root_path, root_kind, lock_files, unvisited, yielded, find_exc, gpc>>

----------------------------------------------------------------------------
(* Bounds of the model *)

MaxSeqLen == 2
MaxResources == 2
MaxModules == 4
MaxModuleResources == 2
MaxRecords == 8
MaxBatchSize == 4
MaxRetriesEnv == 3
MaxPipeResources == 2
MaxEntryPoints == 2
MaxDepth == 2

----------------------------------------------------------------------------
(* JSON nodes *)

Str(s)  == [k |-> "str", s |-> s]
Bool(b) == [k |-> "bool", b |-> b]
Null    == [k |-> "null"]
Map(f)  == [k |-> "map", m |-> f]
List(q) == [k |-> "list", q |-> q]
Num(i)  == [k |-> "int", i |-> i]
Raise(e) == [k |-> "raise", e |-> e]

EmptyDict == Map(<<>>)
IsRaise(n) == "k" \in DOMAIN n /\ n.k = "raise"
None == [k |-> "none"]

SENSITIVE == "**SENSITIVE**"
REDACTED == "**REDACTED**"

Min(a, b) == IF a < b THEN a ELSE b

\* The characters of the strings the model uses (Python iterates and
\* searches strings by character).
Chars(s) ==
    CASE s = "public_key" -> <<"p","u","b","l","i","c","_","k","e","y">>
      [] s = "ssh_public_key" -> <<"s","s","h","_","p","u","b","l","i","c","_","k","e","y">>
      [] s = "tags" -> <<"t","a","g","s">>
      [] s = "id" -> <<"i","d">>
      [] s = "arn" -> <<"a","r","n">>
      [] s = "ar" -> <<"a","r">>
      [] s = "values" -> <<"v","a","l","u","e","s">>
      [] s = "address" -> <<"a","d","d","r","e","s","s">>
      [] s = "x" -> <<"x">>
      [] s = "y" -> <<"y">>
      [] s = "" -> <<>>
      [] s = SENSITIVE -> <<"*","*","S","E","N","S","I","T","I","V","E","*","*">>
      [] s = REDACTED -> <<"*","*","R","E","D","A","C","T","E","D","*","*">>

\* Python's `field in key` on two strings: substring search.
StrContains(key, field) ==
    LET kc == Chars(key)
        fc == Chars(field)
    IN \E off \in 0..(Len(kc) - Len(fc)) :
           \A i \in 1..Len(fc) : kc[off + i] = fc[i]

\* Insertion order of dictionary keys (dictionaries of the model are built
\* in this order).
KeyOrder == <<"address", "mode", "type", "name", "provider_name", "schema_version",
              "arn", "description", "id", "tags", "tags_all", "ami",
              "public_key", "ssh_public_key", "values", "sensitive_values">>

DictKeys(f) == SelectSeq(KeyOrder, LAMBDA key : key \in DOMAIN f)

\* The first exception raised while building the items `res` in order, or
\* None when no item raises.
RECURSIVE FirstRaise(_)
FirstRaise(res) ==
    IF res = <<>> THEN None
    ELSE IF IsRaise(Head(res)) THEN Head(res)
    ELSE FirstRaise(Tail(res))

----------------------------------------------------------------------------
(* unnest_tf_show.py *)

is_key_sensitive(key) ==
    \E i \in 1..Len(SENSITIVE_FIELDS) : StrContains(key, SENSITIVE_FIELDS[i])

\* iter(values) as zip() sees it: a list's items, a dict's keys, a
\* string's characters.
Iterate(values) ==
    CASE values.k = "list" -> values.q
      [] values.k = "map" -> [i \in 1..Len(DictKeys(values.m)) |-> Str(DictKeys(values.m)[i])]
      [] values.k = "str" -> [i \in 1..Len(Chars(values.s)) |-> Str(Chars(values.s)[i])]

RECURSIVE remove_sensitive_recursive(_, _)

\* Mutant: the dict branch without its final else (unmarked keys are lost).
rsr_DropsUnmarkedKeys(values, sensitive_values) ==
    IF sensitive_values.k = "map" /\ values.k = "map" THEN
        Map([key \in {x \in DOMAIN values.m :
                         is_key_sensitive(x) \/ x \in DOMAIN sensitive_values.m} |->
                IF is_key_sensitive(key) THEN Str(REDACTED)
                ELSE remove_sensitive_recursive(values.m[key], sensitive_values.m[key])])
    ELSE IF sensitive_values.k = "bool" /\ sensitive_values.b = TRUE THEN Str(SENSITIVE)
    ELSE values

\* Mutant: the values beyond the marker sequence are kept.
rsr_KeepsTail(values, sensitive_values) ==
    IF sensitive_values.k = "map" /\ values.k = "map" THEN
        Map([key \in DOMAIN values.m |->
                IF is_key_sensitive(key) THEN Str(REDACTED)
                ELSE IF key \in DOMAIN sensitive_values.m
                THEN remove_sensitive_recursive(values.m[key], sensitive_values.m[key])
                ELSE values.m[key]])
    ELSE IF sensitive_values.k = "list" /\ values.k = "list" THEN
        LET n == Min(Len(values.q), Len(sensitive_values.q))
        IN List([i \in 1..n |->
                    remove_sensitive_recursive(values.q[i], sensitive_values.q[i])]
                \o SubSeq(values.q, n + 1, Len(values.q)))
    ELSE IF sensitive_values.k = "bool" /\ sensitive_values.b = TRUE THEN Str(SENSITIVE)
    ELSE values

\* Mutant: zip(..., strict=True).
rsr_ListMismatchRaises(values, sensitive_values) ==
    IF sensitive_values.k = "map" /\ values.k = "map" THEN
        Map([key \in DOMAIN values.m |->
                IF is_key_sensitive(key) THEN Str(REDACTED)
                ELSE IF key \in DOMAIN sensitive_values.m
                THEN remove_sensitive_recursive(values.m[key], sensitive_values.m[key])
                ELSE values.m[key]])
    ELSE IF sensitive_values.k = "list" /\ values.k = "list" THEN
        IF Len(values.q) # Len(sensitive_values.q) THEN Raise("ValueError")
        ELSE List([i \in 1..Len(values.q) |->
                      remove_sensitive_recursive(values.q[i], sensitive_values.q[i])])
    ELSE IF sensitive_values.k = "bool" /\ sensitive_values.b = TRUE THEN Str(SENSITIVE)
    ELSE values

\* Mutant: `if sensitive_values:` in place of `is True`.
rsr_TruthyMarker(values, sensitive_values) ==
    IF sensitive_values.k = "map" /\ values.k = "map" THEN
        Map([key \in DOMAIN values.m |->
                IF is_key_sensitive(key) THEN Str(REDACTED)
                ELSE IF key \in DOMAIN sensitive_values.m
                THEN remove_sensitive_recursive(values.m[key], sensitive_values.m[key])
                ELSE values.m[key]])
    ELSE IF sensitive_values.k = "list" /\ values.k = "list" THEN
        List([i \in 1..Min(Len(values.q), Len(sensitive_values.q)) |->
                 remove_sensitive_recursive(values.q[i], sensitive_values.q[i])])
    ELSE IF \/ (sensitive_values.k = "bool" /\ sensitive_values.b = TRUE)
            \/ (sensitive_values.k = "int" /\ sensitive_values.i # 0)
            \/ (sensitive_values.k = "str" /\ sensitive_values.s # "")
    THEN Str(SENSITIVE)
    ELSE values

\* Mutant: a key that is sensitive by name gets the marker's sentinel.
rsr_OneSentinel(values, sensitive_values) ==
    IF sensitive_values.k = "map" /\ values.k = "map" THEN
        Map([key \in DOMAIN values.m |->
                IF is_key_sensitive(key) THEN Str(SENSITIVE)
                ELSE IF key \in DOMAIN sensitive_values.m
                THEN remove_sensitive_recursive(values.m[key], sensitive_values.m[key])
                ELSE values.m[key]])
    ELSE IF sensitive_values.k = "bool" /\ sensitive_values.b = TRUE THEN Str(SENSITIVE)
    ELSE values

\* Mutant: the marker is consulted before the key name.
rsr_MarkerBeforeName(values, sensitive_values) ==
    IF sensitive_values.k = "map" /\ values.k = "map" THEN
        Map([key \in DOMAIN values.m |->
                IF key \in DOMAIN sensitive_values.m
                THEN remove_sensitive_recursive(values.m[key], sensitive_values.m[key])
                ELSE IF is_key_sensitive(key) THEN Str(REDACTED)
                ELSE values.m[key]])
    ELSE IF sensitive_values.k = "bool" /\ sensitive_values.b = TRUE THEN Str(SENSITIVE)
    ELSE values

remove_sensitive_recursive(values, sensitive_values) ==
    IF sensitive_values.k = "map" THEN
        IF values.k # "map" THEN Raise("AttributeError")
        ELSE
            LET keys == DictKeys(values.m)
                item(key) ==
                    IF is_key_sensitive(key) THEN Str(REDACTED)
                    ELSE IF key \in DOMAIN sensitive_values.m
                    THEN remove_sensitive_recursive(values.m[key], sensitive_values.m[key])
                    ELSE values.m[key]
                new_values == [key \in DOMAIN values.m |-> item(key)]
                raised == FirstRaise([i \in 1..Len(keys) |-> new_values[keys[i]]])
            IN IF raised # None THEN raised ELSE Map(new_values)
    ELSE IF sensitive_values.k = "list" THEN
        IF values.k \notin {"list", "map", "str"} THEN Raise("TypeError")
        ELSE
            LET it == Iterate(values)
                n == Min(Len(it), Len(sensitive_values.q))
                new_values == [i \in 1..n |->
                    remove_sensitive_recursive(it[i], sensitive_values.q[i])]
                raised == FirstRaise(new_values)
            IN IF raised # None THEN raised ELSE List(new_values)
    ELSE IF sensitive_values.k = "bool" /\ sensitive_values.b = TRUE THEN
        Str(SENSITIVE)
    ELSE values

\* Returns the resource with its values replaced, or the exception raised.
remove_sensitive_data(r) ==
    IF "values" \notin DOMAIN r THEN Raise("KeyError")
    ELSE
        LET new_values ==
                IF "sensitive_values" \in DOMAIN r
                THEN remove_sensitive_recursive(r["values"], r["sensitive_values"])
                ELSE remove_sensitive_recursive(r["values"], EmptyDict)
        IN IF IsRaise(new_values) THEN new_values
           ELSE [key \in DOMAIN r |-> IF key = "values" THEN new_values ELSE r[key]]

\* module.get("child_modules", [])
child_modules(module) ==
    IF "child_modules" \in DOMAIN module THEN module["child_modules"] ELSE <<>>

\* A generator frame of recursive_unnest_child_modules(module): ri resources
\* yielded, ci child modules entered.
Frame(module) == [module |-> module, ri |-> 0, ci |-> 0]

FlattenIdle ==
    /\ module_tree = None
    /\ frames = <<>>
    /\ flat = <<>>
    /\ fpc = "idle"

\* Line 118: the innermost generator yields its module's next resource,
\* redacted; a module without resources, or a redaction that raises, ends
\* the whole generator with the exception.
FlattenYield ==
    /\ fpc = "run"
    /\ frames # <<>>
    /\ LET f == frames[Len(frames)] IN
        IF "resources" \notin DOMAIN f.module
        THEN /\ fpc' = "raised"
             /\ UNCHANGED <<frames, flat>>
        ELSE /\ f.ri < Len(f.module["resources"])
             /\ LET r == remove_sensitive_data(f.module["resources"][f.ri + 1]) IN
                 IF IsRaise(r)
                 THEN /\ fpc' = "raised"
                      /\ UNCHANGED <<frames, flat>>
                 ELSE /\ flat' = Append(flat, r)
                      /\ frames' = [frames EXCEPT ![Len(frames)].ri = @ + 1]
                      /\ UNCHANGED fpc
    /\ UNCHANGED module_tree
    /\ UNCHANGED <<redactVars, projectVars, sendVars, repoVars, pipeVars, cliVars, findVars>>

\* Mutant: the child's own resources are yielded without recursing into
\* its child modules.
FlattenDescend_NoRecursion ==
    /\ fpc = "run"
    /\ frames # <<>>
    /\ LET f == frames[Len(frames)] IN
        /\ "resources" \in DOMAIN f.module
        /\ f.ri = Len(f.module["resources"])
        /\ f.ci < Len(child_modules(f.module))
        /\ frames' = Append([frames EXCEPT ![Len(frames)].ci = @ + 1],
                [module |-> [resources |-> child_modules(f.module)[f.ci + 1]["resources"]],
                 ri |-> 0, ci |-> 0])
    /\ UNCHANGED <<module_tree, flat, fpc>>
    /\ UNCHANGED <<redactVars, projectVars, sendVars, repoVars, pipeVars, cliVars, findVars>>

\* Lines 119-120: the resources are done; enter the next child module.
FlattenDescend ==
    /\ fpc = "run"
    /\ frames # <<>>
    /\ LET f == frames[Len(frames)] IN
        /\ "resources" \in DOMAIN f.module
        /\ f.ri = Len(f.module["resources"])
        /\ f.ci < Len(child_modules(f.module))
        /\ frames' = Append([frames EXCEPT ![Len(frames)].ci = @ + 1],
                             Frame(child_modules(f.module)[f.ci + 1]))
    /\ UNCHANGED <<module_tree, flat, fpc>>
    /\ UNCHANGED <<redactVars, projectVars, sendVars, repoVars, pipeVars, cliVars, findVars>>

\* The innermost generator is exhausted and returns to its caller.
FlattenReturn ==
    /\ fpc = "run"
    /\ frames # <<>>
    /\ LET f == frames[Len(frames)] IN
        /\ "resources" \in DOMAIN f.module
        /\ f.ri = Len(f.module["resources"])
        /\ f.ci = Len(child_modules(f.module))
    /\ frames' = SubSeq(frames, 1, Len(frames) - 1)
    /\ fpc' = IF Len(frames) = 1 THEN "done" ELSE "run"
    /\ UNCHANGED <<module_tree, flat>>
    /\ UNCHANGED <<redactVars, projectVars, sendVars, repoVars, pipeVars, cliVars, findVars>>

----------------------------------------------------------------------------
(* main.py: select_essential_data *)

base_keys == <<"address", "mode", "type", "name", "provider_name", "schema_version">>
values_keys == <<"arn", "description", "id", "name", "tags", "tags_all">>

Range(q) == {q[i] : i \in DOMAIN q}

\* Python's `key in container` raises TypeError on a container that is
\* neither a dict, a list nor a string.
PyInRaises(container) == container.k \notin {"map", "list", "str"}

PyIn(key, container) ==
    CASE container.k = "map" -> key \in DOMAIN container.m
      [] container.k = "list" -> Str(key) \in Range(container.q)
      [] container.k = "str" -> StrContains(container.s, key)

\* Mutant: the arn is looked up in the resource, not in its values.
select_skips_ArnAtTopLevel(r) ==
    \/ "address" \notin DOMAIN r
    \/ "values" \notin DOMAIN r
    \/ "arn" \notin DOMAIN r

\* The two `continue` branches (lines 116-122); evaluated left to right.
select_skips(r) ==
    \/ "address" \notin DOMAIN r
    \/ "values" \notin DOMAIN r
    \/ (~PyInRaises(r["values"]) /\ ~PyIn("arn", r["values"]))

\* Mutant: the values are copied whole.
select_new_resource_AllValues(r) ==
    [key \in {b \in Range(base_keys) : b \in DOMAIN r} \cup {"values"} |-> r[key]]

\* The record built for a resource that is not skipped (lines 124-131).
select_new_resource(r) ==
    [key \in {b \in Range(base_keys) : b \in DOMAIN r} \cup {"values"} |->
        IF key = "values"
        THEN Map([vk \in {v \in Range(values_keys) : v \in DOMAIN r["values"].m} |->
                    r["values"].m[vk]])
        ELSE r[key]]

ProjectIdle ==
    /\ resource_list = <<>>
    /\ sel_pos = 0
    /\ projected = <<>>
    /\ ppc = "idle"

\* One iteration of the for loop: the next record is skipped, yielded, or
\* the loop raises.
SelectNext ==
    /\ ppc = "run"
    /\ sel_pos < Len(resource_list)
    /\ sel_pos' = sel_pos + 1
    /\ LET r == resource_list[sel_pos + 1] IN
        IF select_skips(r)
        THEN UNCHANGED <<projected, ppc>>
        ELSE IF r["values"].k # "map"
        THEN /\ ppc' = "raised"
             /\ UNCHANGED projected
        ELSE /\ projected' = Append(projected, select_new_resource(r))
             /\ UNCHANGED ppc
    /\ UNCHANGED resource_list
    /\ UNCHANGED <<redactVars, flattenVars, sendVars, repoVars, pipeVars, cliVars, findVars>>

\* The input iterator is exhausted: the generator returns.
SelectExhausted ==
    /\ ppc = "run"
    /\ sel_pos = Len(resource_list)
    /\ ppc' = "done"
    /\ UNCHANGED <<resource_list, sel_pos, projected>>
    /\ UNCHANGED <<redactVars, flattenVars, sendVars, repoVars, pipeVars, cliVars, findVars>>

----------------------------------------------------------------------------
(* The generators driven to their end *)

\* What a generator gives when it is driven to its end: the records it
\* yields, and the exception that ends it ("none" when it just returns).
Stream(out, e) == [out |-> out, exc |-> e]

EmptyStream == Stream(<<>>, "none")

\* `yield from s` followed by `yield from t`.
StreamThen(s, t) == IF s.exc # "none" THEN s ELSE Stream(s.out \o t.out, t.exc)

\* yield from map(remove_sensitive_data, resources), line 118.
RECURSIVE map_remove_sensitive_data(_)
map_remove_sensitive_data(resources) ==
    IF resources = <<>> THEN EmptyStream
    ELSE LET r == remove_sensitive_data(Head(resources)) IN
         IF IsRaise(r) THEN Stream(<<>>, r.e)
         ELSE StreamThen(Stream(<<r>>, "none"), map_remove_sensitive_data(Tail(resources)))

RECURSIVE recursive_unnest_child_modules(_)
RECURSIVE unnest_each(_)

\* Lines 119-120: the child modules in order.
unnest_each(modules) ==
    IF modules = <<>> THEN EmptyStream
    ELSE StreamThen(recursive_unnest_child_modules(Head(modules)),
                    unnest_each(Tail(modules)))

recursive_unnest_child_modules(module) ==
    IF "resources" \notin DOMAIN module THEN Stream(<<>>, "KeyError")
    ELSE StreamThen(map_remove_sensitive_data(module["resources"]),
                    unnest_each(child_modules(module)))

\* Mutant: the self-check looks at "arn" only.
CheckedFields_ArnOnly == <<"arn">>

\* Line 33: the names check_sensitive_fields_config checks.
CheckedFields == <<"arn", "values", "address">>

\* check_sensitive_fields_config raises SensitiveKeyError.
check_sensitive_fields_config_raises ==
    \E i \in DOMAIN CheckedFields : is_key_sensitive(CheckedFields[i])

\* Mutant: the state is indexed without testing for "values".
unnest_tf_show_NoValuesTest(sd) ==
    IF check_sensitive_fields_config_raises THEN Stream(<<>>, "SensitiveKeyError")
    ELSE IF "values" \notin DOMAIN sd THEN Stream(<<>>, "KeyError")
    ELSE IF sd["values"] = Null THEN Stream(<<>>, "TypeError")
    ELSE IF "root_module" \notin DOMAIN sd["values"] THEN Stream(<<>>, "KeyError")
    ELSE IF sd["values"]["root_module"] = Null THEN Stream(<<>>, "TypeError")
    ELSE recursive_unnest_child_modules(sd["values"]["root_module"])

\* Lines 138-150; sd["values"] is a dictionary or null.
unnest_tf_show(sd) ==
    IF check_sensitive_fields_config_raises THEN Stream(<<>>, "SensitiveKeyError")
    ELSE IF "values" \notin DOMAIN sd THEN EmptyStream
    ELSE IF sd["values"] = Null THEN Stream(<<>>, "AttributeError")
    ELSE LET root_module == IF "root_module" \in DOMAIN sd["values"]
                            THEN sd["values"]["root_module"]
                            ELSE None
         IN IF root_module \in {None, Null} THEN EmptyStream
            ELSE recursive_unnest_child_modules(root_module)

\* The for loop of select_essential_data over the records of a list.
RECURSIVE select_records(_)
select_records(q) ==
    IF q = <<>> THEN EmptyStream
    ELSE LET r == Head(q) IN
         IF select_skips(r) THEN select_records(Tail(q))
         ELSE IF r["values"].k # "map" THEN Stream(<<>>, "TypeError")
         ELSE StreamThen(Stream(<<select_new_resource(r)>>, "none"),
                         select_records(Tail(q)))

\* select_essential_data over a generator: the exception that ends the
\* input ends the output, after the records before it.
select_essential_data(s) == StreamThen(select_records(s.out), Stream(<<>>, s.exc))

\* Lines 135-138.
process_show_output(sd) == select_essential_data(unnest_tf_show(sd))

PipeIdle ==
    /\ show_data = None
    /\ unnested = None
    /\ selected = None
    /\ qpc = "idle"

\* list(unnest_tf_show(show_data)), as the tests drive it.
UnnestTfShow ==
    /\ qpc = "start"
    /\ unnested' = unnest_tf_show(show_data)
    /\ qpc' = "unnested"
    /\ UNCHANGED <<show_data, selected>>
    /\ UNCHANGED <<redactVars, projectVars, flattenVars, sendVars, repoVars, cliVars, findVars>>

\* list(process_show_output(show_data)): the projection over the same
\* generator.
ProcessShowOutput ==
    /\ qpc = "unnested"
    /\ selected' = process_show_output(show_data)
    /\ qpc' = "done"
    /\ UNCHANGED <<show_data, unnested>>
    /\ UNCHANGED <<redactVars, projectVars, flattenVars, sendVars, repoVars, cliVars, findVars>>

----------------------------------------------------------------------------
(* send_to_cxm.py *)

BATCH_SIZE == 1000

\* Mutant: int(os.getenv("CXM_MAX_RETRIES", "3")) without the max.
max_retries_NoClamp(env) == env

\* MAX_RETRIES = max(1, int(os.getenv("CXM_MAX_RETRIES", "3")))
max_retries(env) == IF env > 1 THEN env ELSE 1

\* Mutant: list(iterable), the whole rest of the stream at once.
islice_Unbounded(q, pos, n) == SubSeq(q, pos + 1, Len(q))

\* list(islice(iterable, n)) on an iterator that has yielded pos items.
islice(q, pos, n) == SubSeq(q, pos + 1, Min(pos + n, Len(q)))

next_batch == islice(iterable, it_pos, batch_size)

\* islice pulls past the last record of a stream whose generator raises
\* there: list(islice(...)) raises and the records it had pulled are lost.
pull_raises == iter_exc # "none" /\ it_pos + batch_size > Len(iterable)

\* Mutant: a batch shorter than batch_size ends the generator.
batch_exhausted_OnShortBatch(b) == Len(b) < batch_size

\* Line 25: `if not batch: break`.
batch_exhausted(b) == b = <<>>

\* Mutant: the retry test counts one attempt too many.
retries_left_OneTooMany(n) == n < MAX_RETRIES

\* Line 71: `if attempt < MAX_RETRIES - 1`.
retries_left(n) == n < MAX_RETRIES - 1

\* Mutant: the batch index is the count of batches so far, the current one included.
batch_index_of_CountsFromOne(prev) == prev + 2

\* Line 111: enumerate() numbers the batches 0, 1, 2, ...; prev is the index
\* of the previous batch, -1 before the first.
batch_index_of(prev) == prev + 1

\* Mutant: the API key is required in dry-run mode too.
api_key_missing_EvenInDryRun == CXM_API_KEY = ""

\* Line 97: `if not dry_run and not CXM_API_KEY`.
api_key_missing == ~dry_run /\ CXM_API_KEY = ""

\* Mutant: _send_single_batch checks the API key only.
not_configured_KeyOnly == CXM_API_KEY = ""

\* Line 47: `if not CXM_API_KEY or not CXM_API_ENDPOINT`.
not_configured == CXM_API_KEY = "" \/ CXM_API_ENDPOINT = ""

\* Mutant: the payload is stamped when it is built.
payload_StampedAtSend(b) ==
    [resources |-> b, schema_version |-> 0, repository_url |-> "repository_url",
     scan_metadata |-> scan_metadata, scan_timestamp |-> scan_metadata.scan_timestamp + 1,
     crawler_version |-> "CRAWLER_VERSION"]

\* Lines 50-57: the payload of a batch.
payload(b) ==
    [resources |-> b, schema_version |-> 0, repository_url |-> "repository_url",
     scan_metadata |-> scan_metadata, scan_timestamp |-> scan_metadata.scan_timestamp,
     crawler_version |-> "CRAWLER_VERSION"]

\* What requests.post and raise_for_status can do: an acknowledgment, a
\* non-2xx response (HTTPError) or a transport error.
Outcomes == {"2xx", "non2xx", "transport"}

RepoIdle ==
    /\ platform = "generic"
    /\ entry_points = <<>>
    /\ ep_idx = 0
    /\ entry_points_found = 0
    /\ entry_points_processed = 0
    /\ errors = 0
    /\ metadata_created = 0
    /\ send_calls = <<>>
    /\ repo_exc = "none"
    /\ mpc = "idle"

SendIdle ==
    /\ CXM_API_KEY = ""
    /\ CXM_API_ENDPOINT = ""
    /\ CXM_MAX_RETRIES = 1
    /\ MAX_RETRIES = max_retries(CXM_MAX_RETRIES)
    /\ dry_run = FALSE
    /\ iterable = <<>>
    /\ it_pos = 0
    /\ batch_size = BATCH_SIZE
    /\ batches = <<>>
    /\ batch = <<>>
    /\ batch_idx = -1
    /\ total_resources = 0
    /\ total_batches = 0
    /\ attempt = 0
    /\ calls = <<>>
    /\ posts = <<>>
    /\ exc = "none"
    /\ spc = "idle"
    /\ iter_exc = "none"
    /\ scan_metadata = None

\* _batch_generator driven to its end by list(): one pass of the while loop.
BatchGenNext ==
    /\ spc = "batching"
    /\ it_pos' = it_pos + Len(next_batch)
    /\ IF pull_raises
       THEN /\ spc' = "raised"
            /\ UNCHANGED batches
       ELSE IF batch_exhausted(next_batch)
       THEN /\ spc' = "exhausted"
            /\ UNCHANGED batches
       ELSE /\ batches' = Append(batches, next_batch)
            /\ UNCHANGED spc
    /\ UNCHANGED <<CXM_API_KEY, CXM_API_ENDPOINT, CXM_MAX_RETRIES, MAX_RETRIES, dry_run, scan_metadata, iterable, iter_exc,
                   batch_size, batch, batch_idx, total_resources, total_batches,
                   attempt, calls, posts, exc>>
    /\ UNCHANGED <<redactVars, projectVars, flattenVars, repoVars, pipeVars, cliVars, findVars>>

\* send_data_to_cxm, lines 97-109: the API key check and the counters.
SendStart ==
    /\ spc = "start"
    /\ IF api_key_missing
       THEN /\ exc' = "ValueError"
            /\ spc' = "raised"
       ELSE /\ spc' = "loop"
            /\ UNCHANGED exc
    /\ total_resources' = 0
    /\ total_batches' = 0
    /\ UNCHANGED <<CXM_API_KEY, CXM_API_ENDPOINT, CXM_MAX_RETRIES, MAX_RETRIES, dry_run, scan_metadata, iterable, iter_exc, it_pos,
                   batch_size, batches, batch, batch_idx, attempt, calls, posts>>
    /\ UNCHANGED <<redactVars, projectVars, flattenVars, repoVars, pipeVars, cliVars, findVars>>

\* One iteration of the for loop of send_data_to_cxm up to the first POST:
\* the generator pulls the next batch; an empty one ends the loop and the
\* function returns; otherwise the counters move and, unless dry_run,
\* _send_single_batch is entered (lines 47-59).
SendNextBatch ==
    /\ spc = "loop"
    /\ it_pos' = it_pos + Len(next_batch)
    /\ IF pull_raises
       THEN /\ exc' = iter_exc
            /\ spc' = "raised"
            /\ UNCHANGED <<batch, batch_idx, total_resources, total_batches,
                           attempt, calls>>
       ELSE IF batch_exhausted(next_batch)
       THEN /\ spc' = "returned"
            /\ UNCHANGED <<batch, batch_idx, total_resources, total_batches,
                           attempt, calls, exc>>
       ELSE /\ batch' = next_batch
            /\ batch_idx' = batch_index_of(batch_idx)
            /\ total_resources' = total_resources + Len(next_batch)
            /\ total_batches' = total_batches + 1
            /\ IF dry_run
               THEN /\ spc' = "loop"
                    /\ UNCHANGED <<attempt, calls, exc>>
               ELSE IF not_configured
               THEN /\ calls' = Append(calls, [batch |-> next_batch,
                                                batch_index |-> batch_index_of(batch_idx),
                                                result |-> "ValueError"])
                    /\ exc' = "ValueError"
                    /\ spc' = "raised"
                    /\ UNCHANGED attempt
               ELSE /\ calls' = Append(calls, [batch |-> next_batch,
                                                batch_index |-> batch_index_of(batch_idx),
                                                result |-> IF MAX_RETRIES > 0
                                                           THEN "running"
                                                           ELSE "returned"])
                    /\ attempt' = 0
                    /\ spc' = IF MAX_RETRIES > 0 THEN "post" ELSE "loop"
                    /\ UNCHANGED exc
    /\ UNCHANGED <<CXM_API_KEY, CXM_API_ENDPOINT, CXM_MAX_RETRIES, MAX_RETRIES, dry_run, scan_metadata, iterable, iter_exc,
                   batch_size, batches, posts>>
    /\ UNCHANGED <<redactVars, projectVars, flattenVars, repoVars, pipeVars, cliVars, findVars>>

\* Mutant: the last failure is logged and the loop goes on to the next batch.
Post_SwallowsFailure ==
    /\ spc = "post"
    /\ \E outcome \in Outcomes :
        /\ posts' = Append(posts, [batch_index |-> batch_idx, attempt |-> attempt,
                                   payload |-> payload(batch), outcome |-> outcome])
        /\ IF outcome = "2xx"
           THEN /\ calls' = [calls EXCEPT ![Len(calls)].result = "returned"]
                /\ spc' = "loop"
                /\ UNCHANGED <<attempt, exc>>
           ELSE IF retries_left(attempt)
           THEN /\ attempt' = attempt + 1
                /\ UNCHANGED <<calls, spc, exc>>
           ELSE /\ calls' = [calls EXCEPT ![Len(calls)].result = "RequestException"]
                /\ spc' = "loop"
                /\ UNCHANGED <<attempt, exc>>
    /\ UNCHANGED <<CXM_API_KEY, CXM_API_ENDPOINT, CXM_MAX_RETRIES, MAX_RETRIES, dry_run, scan_metadata, iterable, iter_exc, it_pos,
                   batch_size, batches, batch, batch_idx, total_resources, total_batches>>
    /\ UNCHANGED <<redactVars, projectVars, flattenVars, repoVars, pipeVars, cliVars, findVars>>

\* Mutant: the last failure ends the whole call as if everything was sent.
Post_ReportsSuccess ==
    /\ spc = "post"
    /\ \E outcome \in Outcomes :
        /\ posts' = Append(posts, [batch_index |-> batch_idx, attempt |-> attempt,
                                   payload |-> payload(batch), outcome |-> outcome])
        /\ IF outcome = "2xx"
           THEN /\ calls' = [calls EXCEPT ![Len(calls)].result = "returned"]
                /\ spc' = "loop"
                /\ UNCHANGED <<attempt, exc>>
           ELSE IF retries_left(attempt)
           THEN /\ attempt' = attempt + 1
                /\ UNCHANGED <<calls, spc, exc>>
           ELSE /\ calls' = [calls EXCEPT ![Len(calls)].result = "returned"]
                /\ spc' = "returned"
                /\ UNCHANGED <<attempt, exc>>
    /\ UNCHANGED <<CXM_API_KEY, CXM_API_ENDPOINT, CXM_MAX_RETRIES, MAX_RETRIES, dry_run, scan_metadata, iterable, iter_exc, it_pos,
                   batch_size, batches, batch, batch_idx, total_resources, total_batches>>
    /\ UNCHANGED <<redactVars, projectVars, flattenVars, repoVars, pipeVars, cliVars, findVars>>

\* One pass of the retry loop of _send_single_batch (lines 61-76): a POST of
\* the batch and what its outcome leads to.
Post ==
    /\ spc = "post"
    /\ \E outcome \in Outcomes :
        /\ posts' = Append(posts, [batch_index |-> batch_idx, attempt |-> attempt,
                                   payload |-> payload(batch), outcome |-> outcome])
        /\ IF outcome = "2xx"
           THEN /\ calls' = [calls EXCEPT ![Len(calls)].result = "returned"]
                /\ spc' = "loop"
                /\ UNCHANGED <<attempt, exc>>
           ELSE IF retries_left(attempt)
           THEN /\ attempt' = attempt + 1
                /\ IF attempt + 1 < MAX_RETRIES
                   THEN UNCHANGED <<calls, spc>>
                   ELSE /\ calls' = [calls EXCEPT ![Len(calls)].result = "returned"]
                        /\ spc' = "loop"
                /\ UNCHANGED exc
           ELSE /\ calls' = [calls EXCEPT ![Len(calls)].result = "RequestException"]
                /\ exc' = "RequestException"
                /\ spc' = "raised"
                /\ UNCHANGED attempt
    /\ UNCHANGED <<CXM_API_KEY, CXM_API_ENDPOINT, CXM_MAX_RETRIES, MAX_RETRIES, dry_run, scan_metadata, iterable, iter_exc, it_pos,
                   batch_size, batches, batch, batch_idx, total_resources, total_batches>>
    /\ UNCHANGED <<redactVars, projectVars, flattenVars, repoVars, pipeVars, cliVars, findVars>>

----------------------------------------------------------------------------
(* main.py: process_repository *)

SUPPORTED_PLATFORMS == {"github", "gitlab", "generic"}

\* What compute_terraform_show does for an entry point: it returns the
\* parsed state, or raises (lines 30-36 and 72-82 of
\* compute_terraform_show.py).
ToolErrors == {"CalledProcessError", "TimeoutExpired", "JSONDecodeError", "FileNotFoundError"}

ToolReturns(sd) == [kind |-> "ok", show |-> sd]
ToolRaises(e) == [kind |-> e]

\* Mutant: every error of the planning tool aborts the scan.
aborts_scan_AnyToolError(kind) == kind \in ToolErrors

\* Line 188: `except subprocess.CalledProcessError`. TimeoutExpired,
\* JSONDecodeError and FileNotFoundError are not subclasses of it.
aborts_scan(kind) == kind = "CalledProcessError"

\* Lines 162-177: the scan metadata is created, the counters are reset.
RepoStart ==
    /\ mpc = "start"
    /\ IF platform \notin SUPPORTED_PLATFORMS
       THEN /\ repo_exc' = "ValueError"
            /\ mpc' = "raised"
            /\ UNCHANGED <<scan_metadata, metadata_created>>
       ELSE /\ \E now \in 1..2, uuid4 \in 1..2 :
                scan_metadata' = [platform |-> platform, scan_timestamp |-> now,
                                  run_id |-> uuid4]
            /\ metadata_created' = metadata_created + 1
            /\ mpc' = "loop"
            /\ UNCHANGED repo_exc
    /\ entry_points_found' = 0
    /\ entry_points_processed' = 0
    /\ errors' = 0
    /\ UNCHANGED <<platform, entry_points, ep_idx, send_calls>>
    /\ UNCHANGED <<CXM_API_KEY, CXM_API_ENDPOINT, CXM_MAX_RETRIES, MAX_RETRIES, dry_run, iterable, iter_exc,
                   it_pos, batch_size, batches, batch, batch_idx, total_resources,
                   total_batches, attempt, calls, posts, exc, spc>>
    /\ UNCHANGED <<redactVars, projectVars, flattenVars, pipeVars, cliVars, findVars>>

\* The for loop takes the next entry point (lines 178-185): the planning
\* tool runs; its CalledProcessError aborts the scan, another error counts
\* and goes on, a state is handed as a lazy pipeline to send_data_to_cxm.
\* After the last entry point (lines 197-199) the function raises when
\* errors > 0: `raise e` names a variable the except clause has unset.
RepoEntry ==
    /\ mpc = "loop"
    /\ IF ep_idx = Len(entry_points)
       THEN /\ IF errors > 0
               THEN repo_exc' = "UnboundLocalError" /\ mpc' = "raised"
               ELSE mpc' = "returned" /\ UNCHANGED repo_exc
            /\ UNCHANGED <<ep_idx, entry_points_found, errors, send_calls>>
            /\ UNCHANGED <<iterable, iter_exc, it_pos, batch_idx, exc, spc>>
       ELSE LET tfshow == entry_points[ep_idx + 1] IN
            /\ ep_idx' = ep_idx + 1
            /\ entry_points_found' = entry_points_found + 1
            /\ IF tfshow.kind = "ok"
               THEN /\ iterable' = process_show_output(tfshow.show).out
                    /\ iter_exc' = process_show_output(tfshow.show).exc
                    /\ it_pos' = 0
                    /\ batch_idx' = -1
                    /\ exc' = "none"
                    /\ spc' = "start"
                    /\ send_calls' = Append(send_calls,
                            [entry |-> ep_idx + 1, result |-> "running", exc |-> "none",
                             posts_before |-> Len(posts), posts_after |-> Len(posts)])
                    /\ mpc' = "send"
                    /\ UNCHANGED <<errors, repo_exc>>
               ELSE /\ IF aborts_scan(tfshow.kind)
                       THEN /\ repo_exc' = tfshow.kind
                            /\ mpc' = "raised"
                            /\ UNCHANGED errors
                       ELSE /\ errors' = errors + 1
                            /\ UNCHANGED <<repo_exc, mpc>>
                    /\ UNCHANGED send_calls
                    /\ UNCHANGED <<iterable, iter_exc, it_pos, batch_idx, exc, spc>>
    /\ UNCHANGED <<platform, entry_points, entry_points_processed, metadata_created>>
    /\ UNCHANGED <<CXM_API_KEY, CXM_API_ENDPOINT, CXM_MAX_RETRIES, MAX_RETRIES, dry_run, scan_metadata,
                   batch_size, batches, batch, total_resources, total_batches, attempt,
                   calls, posts>>
    /\ UNCHANGED <<redactVars, projectVars, flattenVars, pipeVars, cliVars, findVars>>

\* send_data_to_cxm is over: it returned (line 186) or raised an exception
\* that is not a CalledProcessError (lines 193-196).
RepoAfterSend ==
    /\ mpc = "send"
    /\ spc \in {"returned", "raised"}
    /\ IF spc = "returned"
       THEN /\ entry_points_processed' = entry_points_processed + 1
            /\ UNCHANGED errors
       ELSE /\ errors' = errors + 1
            /\ UNCHANGED entry_points_processed
    /\ send_calls' = [send_calls EXCEPT ![Len(send_calls)].result = spc,
                                        ![Len(send_calls)].exc = exc,
                                        ![Len(send_calls)].posts_after = Len(posts)]
    /\ spc' = "idle"
    /\ mpc' = "loop"
    /\ UNCHANGED <<platform, entry_points, ep_idx, entry_points_found, metadata_created,
                   repo_exc>>
    /\ UNCHANGED <<CXM_API_KEY, CXM_API_ENDPOINT, CXM_MAX_RETRIES, MAX_RETRIES, dry_run, scan_metadata,
                   iterable, iter_exc, it_pos, batch_size, batches, batch, batch_idx,
                   total_resources, total_batches, attempt, calls, posts, exc>>
    /\ UNCHANGED <<redactVars, projectVars, flattenVars, pipeVars, cliVars, findVars>>

----------------------------------------------------------------------------
(* cli.py: main *)

CliIdle ==
    /\ repository_path = "dir"
    /\ platform_hint = ""
    /\ exit_code = -1
    /\ cpc = "idle"

\* str.lower() on the platform names the model uses.
Lower(s) ==
    CASE s = "GitLab" -> "gitlab"
      [] s = "GitHub" -> "github"
      [] OTHER -> s

\* main.py, lines 23-50.
detect_ci_platform(hint, GITHUB_ACTIONS, GITLAB_CI) ==
    IF hint # ""
    THEN IF Lower(hint) \notin SUPPORTED_PLATFORMS
         THEN [exc |-> "ValueError", platform |-> ""]
         ELSE [exc |-> "none", platform |-> Lower(hint)]
    ELSE IF GITHUB_ACTIONS = "true" THEN [exc |-> "none", platform |-> "github"]
    ELSE IF GITLAB_CI # "" THEN [exc |-> "none", platform |-> "gitlab"]
    ELSE [exc |-> "none", platform |-> "generic"]

\* Mutant: the error is logged and the run counts as done.
exit_status_LogsAndSucceeds(e) == IF e = "KeyboardInterrupt" THEN 130 ELSE 0

\* The return statements of main (lines 108-116) by what the try block
\* ended in: nothing raised, KeyboardInterrupt, another Exception.
exit_status(e) ==
    IF e = "none" THEN 0
    ELSE IF e = "KeyboardInterrupt" THEN 130
    ELSE 1

\* main up to the call of process_repository (lines 72-103): the path
\* checks return 1, an unsupported --platform raises in detect_ci_platform.
CliStart ==
    /\ cpc = "start"
    /\ IF repository_path # "dir"
       THEN /\ exit_code' = 1
            /\ cpc' = "exited"
            /\ UNCHANGED <<platform, mpc>>
       ELSE \E GITHUB_ACTIONS \in {"", "true"}, GITLAB_CI \in {"", "1"} :
              LET detected == detect_ci_platform(platform_hint, GITHUB_ACTIONS, GITLAB_CI)
              IN IF detected.exc # "none"
                 THEN /\ exit_code' = exit_status(detected.exc)
                      /\ cpc' = "exited"
                      /\ UNCHANGED <<platform, mpc>>
                 ELSE /\ platform' = detected.platform
                      /\ mpc' = "start"
                      /\ cpc' = "scan"
                      /\ UNCHANGED exit_code
    /\ UNCHANGED <<repository_path, platform_hint>>
    /\ UNCHANGED <<entry_points, ep_idx, entry_points_found, entry_points_processed,
                   errors, metadata_created, send_calls, repo_exc>>
    /\ UNCHANGED <<redactVars, projectVars, flattenVars, sendVars, pipeVars, findVars>>

\* The user interrupts process_repository: KeyboardInterrupt is not an
\* Exception, so neither the handlers of process_repository (lines 188-196)
\* nor anything in send_to_cxm.py catches it.
KeyboardInterrupt ==
    /\ cpc = "scan"
    /\ mpc \in {"start", "loop", "send"}
    /\ repo_exc' = "KeyboardInterrupt"
    /\ mpc' = "raised"
    /\ IF spc \in {"start", "loop", "post"}
       THEN spc' = "raised" /\ exc' = "KeyboardInterrupt"
       ELSE UNCHANGED <<spc, exc>>
    /\ UNCHANGED <<platform, entry_points, ep_idx, entry_points_found, entry_points_processed,
                   errors, metadata_created, send_calls>>
    /\ UNCHANGED <<CXM_API_KEY, CXM_API_ENDPOINT, CXM_MAX_RETRIES, MAX_RETRIES, dry_run, scan_metadata,
                   iterable, iter_exc, it_pos, batch_size, batches, batch, batch_idx,
                   total_resources, total_batches, attempt, calls, posts>>
    /\ UNCHANGED <<repository_path, platform_hint, exit_code, cpc>>
    /\ UNCHANGED <<redactVars, projectVars, flattenVars, pipeVars, findVars>>

\* process_repository has returned or raised: main returns (lines 107-116).
CliReturn ==
    /\ cpc = "scan"
    /\ mpc \in {"returned", "raised"}
    /\ exit_code' = exit_status(IF mpc = "returned" THEN "none" ELSE repo_exc)
    /\ cpc' = "exited"
    /\ UNCHANGED <<repository_path, platform_hint>>
    /\ UNCHANGED <<redactVars, projectVars, flattenVars, sendVars, repoVars, pipeVars, findVars>>

----------------------------------------------------------------------------
(* find_entrypoints.py *)

\* Paths are sequences of components.
EXCLUDED_DIRS ==
    {".terraform", "modules", ".git", ".hidden", "__pycache__", ".pytest_cache",
     ".venv", "node_modules"}

LockFileName == ".terraform.lock.hcl"

FindIdle ==
    /\ root_path = <<>>
    /\ root_kind = "dir"
    /\ lock_files = {}
    /\ unvisited = {}
    /\ yielded = <<>>
    /\ find_exc = "none"
    /\ gpc = "idle"

\* Path.parent
parent(path) == SubSeq(path, 1, Len(path) - 1)

\* Path.relative_to: the components after the other path, ValueError when
\* the other path is not a prefix.
relative_to(path, other) ==
    IF Len(other) <= Len(path) /\ SubSeq(path, 1, Len(other)) = other
    THEN [exc |-> "none", parts |-> SubSeq(path, Len(other) + 1, Len(path))]
    ELSE [exc |-> "ValueError", parts |-> <<>>]

\* Mutant: only the directory that holds the lock file is looked at.
is_valid_entrypoint_ParentNameOnly(lock_file_path, root) ==
    LET rel_path == relative_to(parent(lock_file_path), root)
    IN /\ rel_path.exc = "none"
       /\ rel_path.parts # <<>> => rel_path.parts[Len(rel_path.parts)] \notin EXCLUDED_DIRS

\* _is_valid_entrypoint, lines 8-38.
is_valid_entrypoint(lock_file_path, root) ==
    LET parent_dir == parent(lock_file_path)
        rel_path == relative_to(parent_dir, root)
    IN /\ rel_path.exc = "none"
       /\ \A i \in 1..Len(rel_path.parts) : rel_path.parts[i] \notin EXCLUDED_DIRS

\* find_terraform_lock_files up to the loop (lines 52-63), run at the first
\* pull of the generator; rglob will give each lock file under the root.
FindStart ==
    /\ gpc = "start"
    /\ IF root_kind = "missing"
       THEN find_exc' = "FileNotFoundError" /\ gpc' = "raised" /\ UNCHANGED unvisited
       ELSE IF root_kind # "dir"
       THEN find_exc' = "NotADirectoryError" /\ gpc' = "raised" /\ UNCHANGED unvisited
       ELSE /\ unvisited' = lock_files
            /\ gpc' = "walk"
            /\ UNCHANGED find_exc
    /\ UNCHANGED <<root_path, root_kind, lock_files, yielded>>
    /\ UNCHANGED <<redactVars, projectVars, flattenVars, sendVars, repoVars, pipeVars, cliVars>>

\* One pass of the for loop (lines 65-68): rglob gives the next lock file,
\* in no particular order, or ends.
FindNext ==
    /\ gpc = "walk"
    /\ IF unvisited = {}
       THEN gpc' = "done" /\ UNCHANGED <<unvisited, yielded>>
       ELSE \E lock_file \in unvisited :
              /\ unvisited' = unvisited \ {lock_file}
              /\ yielded' = IF is_valid_entrypoint(lock_file, root_path)
                            THEN Append(yielded, parent(lock_file))
                            ELSE yielded
              /\ UNCHANGED gpc
    /\ UNCHANGED <<root_path, root_kind, lock_files, find_exc>>
    /\ UNCHANGED <<redactVars, projectVars, flattenVars, sendVars, repoVars, pipeVars, cliVars>>

----------------------------------------------------------------------------
(* Inputs of the redaction runs *)

SeqsOver(S, n) == UNION {[1..l -> S] : l \in 0..n}
MapsOver(K, S) == UNION {[D -> S] : D \in SUBSET K}

Scalars == {Str("x"), Null}
MarkerLeaves == {Bool(TRUE), Bool(FALSE)}
InnerKeys == {"public_key", "id"}
TopKeys == {"public_key", "tags"}

Inner(S) ==
    S \cup {Map(f) : f \in MapsOver(InnerKeys, S)}
      \cup {List(q) : q \in SeqsOver(S, MaxSeqLen)}

\* Dictionaries over TopKeys: a leaf under "public_key", any inner node
\* under "tags".
Top(S) ==
    {Map(f) : f \in {g \in MapsOver(TopKeys, Inner(S)) :
                        "public_key" \in DOMAIN g => g["public_key"] \in S}}

ValueNodes == Top(Scalars) \cup Inner(Scalars)
MarkerNodes == Top(MarkerLeaves) \cup Inner(MarkerLeaves)

Address == Str("x")

\* Markers that are scalars other than a boolean, alone or under a key.
ScalarMarkers == {Null, Num(1), Num(0), Str("x")}
ScalarMarkerNodes == ScalarMarkers \cup {Map([tags |-> m]) : m \in ScalarMarkers}

RedactInputs ==
    {[address |-> Address]}
      \cup {[address |-> Address, values |-> v] : v \in ValueNodes}
      \cup {[address |-> Address, values |-> v, sensitive_values |-> m] :
                v \in ValueNodes, m \in MarkerNodes \cup ScalarMarkerNodes}

\* SENSITIVE_FIELDS = ["public_key"] + the patterns of the environment.
AdditionalSensitive == {<<>>, <<"id">>}

----------------------------------------------------------------------------
(* Redaction of one resource, and a second pass under an empty marker *)

RedactInit ==
    /\ CliIdle
    /\ FindIdle
    /\ \E extra \in AdditionalSensitive : SENSITIVE_FIELDS = <<"public_key">> \o extra
    /\ resource \in RedactInputs
    /\ redacted = None
    /\ again = None
    /\ rpc = "start"
    /\ ProjectIdle
    /\ FlattenIdle
    /\ SendIdle
    /\ RepoIdle
    /\ PipeIdle

Redact ==
    /\ rpc = "start"
    /\ redacted' = remove_sensitive_data(resource)
    /\ rpc' = "redacted"
    /\ UNCHANGED <<SENSITIVE_FIELDS, resource, again>>
    /\ UNCHANGED <<projectVars, flattenVars, sendVars, repoVars, pipeVars, cliVars, findVars>>

RedactAgain ==
    /\ rpc = "redacted"
    /\ ~IsRaise(redacted)
    /\ again' = remove_sensitive_recursive(redacted["values"], EmptyDict)
    /\ rpc' = "again"
    /\ UNCHANGED <<SENSITIVE_FIELDS, resource, redacted>>
    /\ UNCHANGED <<projectVars, flattenVars, sendVars, repoVars, pipeVars, cliVars, findVars>>

RedactNext == Redact \/ RedactAgain

SpecRedact == RedactInit /\ [][RedactNext]_vars

----------------------------------------------------------------------------
(* Claims about redaction (checked under SpecRedact) *)

Returned == rpc \in {"redacted", "again"} /\ ~IsRaise(redacted)

\* The marker remove_sensitive_data passes for the resource.
MarkerOf(r) == IF "sensitive_values" \in DOMAIN r THEN r["sensitive_values"] ELSE EmptyDict

\* Every dictionary key of the tree n that is sensitive by name holds the
\* field-pattern sentinel.
RECURSIVE SensitiveNamesRedacted(_)
SensitiveNamesRedacted(n) ==
    CASE n.k = "map" ->
            \A key \in DOMAIN n.m :
                IF is_key_sensitive(key) THEN n.m[key] = Str(REDACTED)
                ELSE SensitiveNamesRedacted(n.m[key])
      [] n.k = "list" -> \A i \in 1..Len(n.q) : SensitiveNamesRedacted(n.q[i])
      [] OTHER -> TRUE

\* C2: in the redacted values of a resource every field whose key name is
\* sensitive, at any nesting depth, holds "**REDACTED**", whatever the
\* marker says and also when the marker has no entry for the key or for an
\* ancestor, or is absent.
C2_NameRedactionAtAnyDepth ==
    (Returned /\ resource["values"].k = "map")
        => SensitiveNamesRedacted(redacted["values"])

\* C9: under a mapping marker, every key of a value mapping that is not
\* sensitive by name and is not a key of the marker is in the output with
\* exactly its input value.
C9_UnmarkedKeysCopied ==
    (Returned /\ resource["values"].k = "map" /\ MarkerOf(resource).k = "map")
        => \A key \in DOMAIN resource["values"].m :
               (~is_key_sensitive(key) /\ key \notin DOMAIN MarkerOf(resource).m)
                   => /\ redacted["values"].k = "map"
                      /\ key \in DOMAIN redacted["values"].m
                      /\ redacted["values"].m[key] = resource["values"].m[key]

\* A container under an unmarked, non-sensitive key came through unchanged.
C9_Witness ==
    /\ Returned
    /\ MarkerOf(resource).k = "map"
    /\ "public_key" \in DOMAIN MarkerOf(resource).m
    /\ resource["values"].k = "map"
    /\ "tags" \in DOMAIN resource["values"].m
    /\ "tags" \notin DOMAIN MarkerOf(resource).m
    /\ resource["values"].m["tags"] = Map([public_key |-> Str("x"), id |-> Null])
    /\ redacted["values"].m["tags"] = Map([public_key |-> Str("x"), id |-> Null])

\* The output `out` of the values v under the marker m: wherever the marker
\* tree reaches a value with marker true the output is "**SENSITIVE**", and
\* every key the marker tree reaches that is sensitive by name holds
\* "**REDACTED**", whatever its marker.
RECURSIVE SentinelsPlaced(_, _, _)
SentinelsPlaced(v, m, out) ==
    CASE m.k = "map" /\ v.k = "map" ->
            /\ out.k = "map"
            /\ \A key \in DOMAIN v.m :
                  IF is_key_sensitive(key) THEN out.m[key] = Str(REDACTED)
                  ELSE key \in DOMAIN m.m => SentinelsPlaced(v.m[key], m.m[key], out.m[key])
      [] m.k = "list" /\ v.k = "list" ->
            /\ out.k = "list"
            /\ \A i \in 1..Min(Len(v.q), Len(m.q)) :
                  SentinelsPlaced(v.q[i], m.q[i], out.q[i])
      [] m = Bool(TRUE) -> out = Str(SENSITIVE)
      [] OTHER -> TRUE

\* C19: in the redacted values of a resource a value whose marker is true
\* is "**SENSITIVE**", a key that is sensitive by name holds "**REDACTED**"
\* also when its marker is true, and the two sentinels differ.
C19_TwoSentinels ==
    /\ SENSITIVE # REDACTED
    /\ (Returned /\ resource["values"].k = "map" /\ MarkerOf(resource).k = "map")
         => SentinelsPlaced(resource["values"], MarkerOf(resource), redacted["values"])

\* {tags: "x", public_key: "x"} with both keys marked true.
C19_Witness ==
    /\ Returned
    /\ resource["values"] = Map([tags |-> Str("x"), public_key |-> Str("x")])
    /\ MarkerOf(resource) = Map([tags |-> Bool(TRUE), public_key |-> Bool(TRUE)])
    /\ redacted["values"] = Map([tags |-> Str(SENSITIVE), public_key |-> Str(REDACTED)])

\* The values mapping with the keys that are sensitive by name redacted.
NamesRedacted(v) ==
    Map([key \in DOMAIN v.m |-> IF is_key_sensitive(key) THEN Str(REDACTED) ELSE v.m[key]])

\* remove_sensitive_data has run on a resource that has values.
Ran == rpc # "start" /\ "values" \in DOMAIN resource

\* C23 as stated: under the marker {} a value mapping comes out unchanged
\* apart from the keys redacted by name, and under the marker [] a value
\* sequence comes out whole.
C23_EmptyMarkerCopies ==
    Ran =>
        /\ (resource["values"].k = "map" /\ MarkerOf(resource) = EmptyDict)
              => (~IsRaise(redacted) /\ redacted["values"] = NamesRedacted(resource["values"]))
        /\ (resource["values"].k = "list" /\ MarkerOf(resource) = List(<<>>))
              => (~IsRaise(redacted) /\ redacted["values"] = resource["values"])

\* C23: under the marker {} a value mapping comes out unchanged apart from
\* the keys redacted by name; under the marker [] a value sequence comes
\* out as the empty sequence, which is the input only when the input is
\* empty.
C23_EmptyMarkerCopiesMapping ==
    Ran =>
        /\ (resource["values"].k = "map" /\ MarkerOf(resource) = EmptyDict)
              => (~IsRaise(redacted) /\ redacted["values"] = NamesRedacted(resource["values"]))
        /\ (resource["values"].k = "list" /\ MarkerOf(resource) = List(<<>>))
              => (~IsRaise(redacted) /\ redacted["values"] = List(<<>>))

\* A sequence of two values under the marker [].
C23_Witness ==
    /\ rpc = "redacted"
    /\ "values" \in DOMAIN resource
    /\ resource["values"] = List(<<Str("x"), Null>>)
    /\ MarkerOf(resource) = List(<<>>)
    /\ redacted["values"] = List(<<>>)

\* C24: a value sequence under a marker sequence comes out as the sequence
\* of length min(len(value), len(marker)) whose i-th element is the
\* redaction of value[i] under marker[i]: "**SENSITIVE**" under true, the
\* value itself under false; a length mismatch raises nothing.
C24_PairwiseToShorter ==
    (Ran /\ resource["values"].k = "list" /\ MarkerOf(resource).k = "list") =>
        LET v == resource["values"].q
            m == MarkerOf(resource).q
            n == IF Len(v) < Len(m) THEN Len(v) ELSE Len(m)
        IN /\ ~IsRaise(redacted)
           /\ redacted["values"].k = "list"
           /\ Len(redacted["values"].q) = n
           /\ \A i \in 1..n :
                 /\ redacted["values"].q[i] = remove_sensitive_recursive(v[i], m[i])
                 /\ m[i] = Bool(TRUE) => redacted["values"].q[i] = Str(SENSITIVE)
                 /\ m[i] = Bool(FALSE) => redacted["values"].q[i] = v[i]

\* Two values under a marker of one element.
C24_Witness ==
    /\ rpc = "redacted"
    /\ "values" \in DOMAIN resource
    /\ resource["values"] = List(<<Str("x"), Str("x")>>)
    /\ MarkerOf(resource) = List(<<Bool(TRUE)>>)
    /\ redacted["values"] = List(<<Str(SENSITIVE)>>)

\* C25: under a marker that is a scalar other than true (false, null, a
\* number, a string), at the top or under a key that is not sensitive by
\* name, the value comes out unchanged, a container with all its content,
\* keys that are sensitive by name included.
C25_ScalarMarkerLeavesValue ==
    Ran =>
        LET m == MarkerOf(resource)
            v == resource["values"]
        IN /\ (m.k \notin {"map", "list"} /\ m # Bool(TRUE))
                 => (~IsRaise(redacted) /\ redacted["values"] = v)
           /\ (m.k = "map" /\ v.k = "map" /\ ~IsRaise(redacted)) =>
                 \A key \in DOMAIN m.m \cap DOMAIN v.m :
                     (~is_key_sensitive(key) /\ m.m[key].k \notin {"map", "list"}
                                             /\ m.m[key] # Bool(TRUE))
                         => redacted["values"].m[key] = v.m[key]

\* A mapping with a key that is sensitive by name, under a string marker.
C25_Witness ==
    /\ rpc = "redacted"
    /\ "values" \in DOMAIN resource
    /\ MarkerOf(resource) = Map([tags |-> Str("x")])
    /\ resource["values"] = Map([tags |-> Map([public_key |-> Str("x")])])
    /\ redacted["values"] = resource["values"]

\* C10 as stated: for every values mapping and every marker, a second
\* redaction of the result under the empty marker returns the result.
C10_IdempotentAnyMarker ==
    (rpc = "again" /\ resource["values"].k = "map")
        => again = redacted["values"]

\* C10: for every values mapping and every marker that is a mapping (or
\* absent), a second redaction of the result under the empty marker returns
\* the result, sentinels included.
C10_IdempotentMappingMarker ==
    (rpc = "again" /\ resource["values"].k = "map" /\ MarkerOf(resource).k = "map")
        => again = redacted["values"]

\* Both sentinels are in a result that went through the second pass.
C10_Witness ==
    /\ rpc = "again"
    /\ resource["values"].k = "map"
    /\ MarkerOf(resource).k = "map"
    /\ redacted["values"].k = "map"
    /\ DOMAIN redacted["values"].m = {"public_key", "tags"}
    /\ redacted["values"].m["public_key"] = Str(REDACTED)
    /\ redacted["values"].m["tags"] = Str(SENSITIVE)
    /\ again = redacted["values"]

----------------------------------------------------------------------------
(* Projection of a list of resources *)

RedactIdle ==
    /\ SENSITIVE_FIELDS = <<"public_key">>
    /\ resource = None
    /\ redacted = None
    /\ again = None
    /\ rpc = "idle"

\* Resources as they reach the projection: with or without address, values
\* and arn, with allow-listed and other fields.
ProjectValues ==
    {Map(<<>>), Map([arn |-> Str("x")]), Map([arn |-> Str("")]), Map([arn |-> Null]),
     Map([id |-> Str("y")]), Map([arn |-> Str("x"), id |-> Str("y"), ami |-> Str("y")]),
     Str(SENSITIVE)}

ProjectOthers ==
    {<<>>, [type |-> Str("y"), sensitive_values |-> EmptyDict]}

WithKey(f, key, v) == [x \in DOMAIN f \cup {key} |-> IF x = key THEN v ELSE f[x]]

ProjectInputs ==
    LET a0 == ProjectOthers
        a1 == a0 \cup {WithKey(f, "address", a) : f \in a0, a \in {Str(""), Str("x")}}
    IN a1 \cup {WithKey(f, "values", v) : f \in a1, v \in ProjectValues}

ProjectInit ==
    /\ CliIdle
    /\ FindIdle
    /\ RedactIdle
    /\ FlattenIdle
    /\ SendIdle
    /\ RepoIdle
    /\ PipeIdle
    /\ resource_list \in SeqsOver(ProjectInputs, MaxResources)
    /\ sel_pos = 0
    /\ projected = <<>>
    /\ ppc = "run"

ProjectNext == SelectNext \/ SelectExhausted

SpecProject == ProjectInit /\ [][ProjectNext]_vars

----------------------------------------------------------------------------
(* Claims about the projection (checked under SpecProject) *)

HasAddressAndArn(r) ==
    /\ "address" \in DOMAIN r
    /\ "values" \in DOMAIN r
    /\ r["values"].k = "map"
    /\ "arn" \in DOMAIN r["values"].m

\* The input records pulled so far that have an address and a values.arn.
Qualifying == SelectSeq(SubSeq(resource_list, 1, sel_pos), HasAddressAndArn)

\* C5: select_essential_data emits one record, in input order, for each
\* input record with an address key and a values.arn key, nothing for the
\* others, and never raises.
C5_OneRecordPerQualifyingInput ==
    /\ ppc # "raised"
    /\ Len(projected) = Len(Qualifying)
    /\ \A n \in 1..Len(projected) :
          /\ projected[n]["address"] = Qualifying[n]["address"]
          /\ projected[n]["values"].m["arn"] = Qualifying[n]["values"].m["arn"]

\* A record is emitted, one without arn and one without address are dropped.
C5_Witness ==
    /\ ppc = "done"
    /\ Len(resource_list) = 2
    /\ resource_list[1] = [address |-> Str("x"), values |-> Map([id |-> Str("y")])]
    /\ resource_list[2] = [address |-> Str(""), values |-> Map([arn |-> Str("x")])]
    /\ projected = <<[address |-> Str(""), values |-> Map([arn |-> Str("x")])]>>

NonEmpty(n) == n.k = "str" /\ n.s # ""

\* C6: every record the projection emits has a non-empty address and a
\* non-empty values.arn; a record whose address or arn is empty or null is
\* dropped.
C6_EmittedIdentityNonEmpty ==
    \A n \in 1..Len(projected) :
        /\ NonEmpty(projected[n]["address"])
        /\ NonEmpty(projected[n]["values"].m["arn"])

\* C7: an emitted record has only allow-listed keys; each allow-listed key
\* is in the output iff it is in the input, with the input's value; all
\* other input fields are absent.
C7_StrictAllowList ==
    \A n \in 1..Len(projected) :
        LET out == projected[n]
            inp == Qualifying[n]
        IN /\ DOMAIN out \subseteq Range(base_keys) \cup {"values"}
           /\ "values" \in DOMAIN out
           /\ out["values"].k = "map"
           /\ DOMAIN out["values"].m \subseteq Range(values_keys)
           /\ \A key \in Range(base_keys) :
                 /\ key \in DOMAIN out <=> key \in DOMAIN inp
                 /\ key \in DOMAIN out => out[key] = inp[key]
           /\ \A key \in Range(values_keys) :
                 /\ key \in DOMAIN out["values"].m <=> key \in DOMAIN inp["values"].m
                 /\ key \in DOMAIN out["values"].m
                        => out["values"].m[key] = inp["values"].m[key]

\* A record with sensitive_values and ami went through without them.
C7_Witness ==
    /\ Len(projected) = 1
    /\ sel_pos = 1
    /\ DOMAIN resource_list[1] = {"address", "type", "sensitive_values", "values"}
    /\ DOMAIN resource_list[1]["values"].m = {"arn", "id", "ami"}
    /\ DOMAIN projected[1] = {"address", "type", "values"}
    /\ DOMAIN projected[1]["values"].m = {"arn", "id"}

----------------------------------------------------------------------------
(* Flattening of a module tree *)

\* Shapes of module trees with exactly n modules: n |-> the number of the
\* root's resources, c |-> the shapes of its child modules.
RECURSIVE TreeShapes(_), ForestShapes(_)
TreeShapes(n) ==
    {[n |-> r, c |-> f] : r \in 0..MaxModuleResources, f \in ForestShapes(n - 1)}

ForestShapes(n) ==
    IF n = 0 THEN {<<>>}
    ELSE UNION {{<<t>> \o f : t \in TreeShapes(j), f \in ForestShapes(n - j)} : j \in 1..n}

\* The resource numbered id. The decimal digits of id spell its place: one
\* digit above MaxModuleResources per child module entered from the root,
\* then the index of the resource in its module.
TreeResource(id) ==
    [address |-> Str("x"),
     values |-> Map([id |-> Num(id), public_key |-> Str("x")])]

RECURSIVE Module(_, _)
Module(shape, code) ==
    LET resources == [i \in 1..shape.n |-> TreeResource(code * 10 + i)]
    IN IF shape.c = <<>> THEN [resources |-> resources]
       ELSE [resources |-> resources,
             child_modules |-> [j \in 1..Len(shape.c) |->
                 Module(shape.c[j], code * 10 + MaxModuleResources + j)]]

ModuleTrees == {Module(shape, 0) : shape \in UNION {TreeShapes(n) : n \in 1..MaxModules}}

FlattenInit ==
    /\ CliIdle
    /\ FindIdle
    /\ RedactIdle
    /\ ProjectIdle
    /\ SendIdle
    /\ RepoIdle
    /\ PipeIdle
    /\ module_tree \in ModuleTrees
    /\ frames = <<Frame(module_tree)>>
    /\ flat = <<>>
    /\ fpc = "run"

FlattenNext == FlattenYield \/ FlattenDescend \/ FlattenReturn

SpecFlatten == FlattenInit /\ [][FlattenNext]_vars

----------------------------------------------------------------------------
(* Claims about the flattening (checked under SpecFlatten) *)

RECURSIVE Digits(_)
Digits(n) == IF n < 10 THEN <<n>> ELSE Append(Digits(n \div 10), n % 10)

\* Place a comes before place b in depth-first pre-order: at the first
\* digit where they differ a has the smaller one (a resource index, or an
\* earlier child module).
Before(a, b) ==
    \E p \in 1..Min(Len(a), Len(b)) :
        /\ a[p] < b[p]
        /\ \A q \in 1..(p - 1) : a[q] = b[q]

RECURSIVE ResourceIds(_)
ResourceIds(module) ==
    {module["resources"][i]["values"].m["id"].i : i \in 1..Len(module["resources"])}
      \cup UNION {ResourceIds(child_modules(module)[j]) :
                    j \in 1..Len(child_modules(module))}

FlatIds == [n \in 1..Len(flat) |-> flat[n]["values"].m["id"].i]

\* C8: the flattening yields every resource of the module tree exactly
\* once, in depth-first pre-order: a module's resources in their order
\* before its descendants', child modules in their order.
C8_PreOrderEachOnce ==
    fpc \in {"run", "done"} =>
        /\ \A a, b \in 1..Len(flat) :
              a < b => Before(Digits(FlatIds[a]), Digits(FlatIds[b]))
        /\ Range(FlatIds) \subseteq ResourceIds(module_tree)
        /\ fpc = "done" => Range(FlatIds) = ResourceIds(module_tree)

\* root -> [A, B], A -> [C], one resource each: root's, A's, C's, B's.
C8_Witness ==
    /\ fpc = "done"
    /\ Len(module_tree["resources"]) = 1
    /\ Len(child_modules(module_tree)) = 2
    /\ Len(child_modules(child_modules(module_tree)[1])) = 1
    /\ LET A == MaxModuleResources + 1
           B == MaxModuleResources + 2
       IN FlatIds = <<1, A * 10 + 1, (A * 10 + A) * 10 + 1, B * 10 + 1>>
    /\ \A n \in 1..Len(flat) : flat[n]["values"].m["public_key"] = Str(REDACTED)

----------------------------------------------------------------------------
(* Batching of a record stream *)

\* A stream of n distinct records.
Records(n) == [i \in 1..n |-> i]

BatchInit ==
    /\ CliIdle
    /\ FindIdle
    /\ RedactIdle
    /\ ProjectIdle
    /\ FlattenIdle
    /\ CXM_API_KEY = ""
    /\ CXM_API_ENDPOINT = ""
    /\ CXM_MAX_RETRIES = 1
    /\ MAX_RETRIES = max_retries(CXM_MAX_RETRIES)
    /\ dry_run = FALSE
    /\ \E n \in 0..MaxRecords : iterable = Records(n)
    /\ it_pos = 0
    /\ batch_size \in 1..MaxBatchSize
    /\ batches = <<>>
    /\ batch = <<>>
    /\ batch_idx = -1
    /\ total_resources = 0
    /\ total_batches = 0
    /\ attempt = 0
    /\ calls = <<>>
    /\ posts = <<>>
    /\ exc = "none"
    /\ spc = "batching"
    /\ iter_exc = "none"
    /\ scan_metadata = None
    /\ RepoIdle
    /\ PipeIdle

BatchNext == BatchGenNext

SpecBatch == BatchInit /\ [][BatchNext]_vars

Ceil(n, d) == (n + d - 1) \div d

\* C3: _batch_generator never yields an empty batch nor one above the batch
\* size, and once it is exhausted over N records with batch size S it has
\* yielded exactly ceil(N/S) batches, all of S records except possibly the
\* last, which has between 1 and S; N = 0 gives no batch.
C3_CeilBatches ==
    LET N == Len(iterable)
        S == batch_size
    IN /\ \A i \in 1..Len(batches) : Len(batches[i]) \in 1..S
       /\ spc = "exhausted" =>
            /\ Len(batches) = Ceil(N, S)
            /\ \A i \in 1..(Len(batches) - 1) : Len(batches[i]) = S
            /\ N = 0 => batches = <<>>

C3_Witness ==
    /\ spc = "exhausted"
    /\ Len(iterable) = 7
    /\ batch_size = 3
    /\ Len(batches) = 3
    /\ Len(batches[3]) = 1

----------------------------------------------------------------------------
(* Delivery of a record stream *)

\* Stream lengths around the batch size, up to two and a half batches.
StreamLengths ==
    {0, 1, BATCH_SIZE - 1, BATCH_SIZE, BATCH_SIZE + 1, 2 * BATCH_SIZE,
     2 * BATCH_SIZE + BATCH_SIZE \div 2}

SendInit ==
    /\ CliIdle
    /\ FindIdle
    /\ RedactIdle
    /\ ProjectIdle
    /\ FlattenIdle
    /\ CXM_API_KEY \in {"", "key"}
    /\ CXM_API_ENDPOINT \in {"", "https://api"}
    /\ CXM_MAX_RETRIES \in -1..MaxRetriesEnv
    /\ MAX_RETRIES = max_retries(CXM_MAX_RETRIES)
    /\ dry_run \in BOOLEAN
    /\ \E n \in StreamLengths : iterable = Records(n)
    /\ it_pos = 0
    /\ batch_size = BATCH_SIZE
    /\ batches = <<>>
    /\ batch = <<>>
    /\ batch_idx = -1
    /\ total_resources = 0
    /\ total_batches = 0
    /\ attempt = 0
    /\ calls = <<>>
    /\ posts = <<>>
    /\ exc = "none"
    /\ spc = "start"
    /\ iter_exc = "none"
    /\ scan_metadata = [platform |-> "generic", scan_timestamp |-> 1, run_id |-> 1]
    /\ RepoIdle
    /\ PipeIdle

SendNext == SendStart \/ SendNextBatch \/ Post

SpecSend == SendInit /\ [][SendNext]_vars

Finished == spc \in {"returned", "raised"}

\* C11: outside dry-run, with the API key or the endpoint not configured,
\* send_data_to_cxm makes no POST and, for every input stream, ends in a
\* ValueError.
C11_MissingConfigAlwaysValueError ==
    (~dry_run /\ (CXM_API_KEY = "" \/ CXM_API_ENDPOINT = "")) =>
        /\ posts = <<>>
        /\ Finished => exc = "ValueError"

\* C12: in dry-run mode no POST is made and no call of _send_single_batch,
\* no error is raised whatever the key and the endpoint are, and at the
\* return the whole stream has been pulled and counted in ceil(N/BATCH_SIZE)
\* batches, as in normal mode.
C12_DryRunNoPost ==
    dry_run =>
        /\ posts = <<>>
        /\ calls = <<>>
        /\ exc = "none"
        /\ spc # "raised"
        /\ total_resources = it_pos
        /\ spc = "returned" =>
             /\ it_pos = Len(iterable)
             /\ total_batches = Ceil(Len(iterable), BATCH_SIZE)

C12_Witness ==
    /\ dry_run
    /\ CXM_API_KEY = ""
    /\ CXM_API_ENDPOINT = ""
    /\ spc = "returned"
    /\ total_resources = 2500
    /\ total_batches = 3

\* The POST requests made for the i-th call of _send_single_batch.
PostsOf(i) == SelectSeq(posts, LAMBDA p : p.batch_index = calls[i].batch_index)

Failed(p) == p.outcome # "2xx"

\* C1: for every batch sent with key and endpoint configured: a call that
\* raised made exactly MAX_RETRIES POSTs, all failed; a call that returned
\* made k <= MAX_RETRIES POSTs of which only the last succeeded; a call
\* still retrying has made fewer than MAX_RETRIES POSTs, all failed. The
\* POSTs of a finished call never grow afterwards.
C1_RetryBudget ==
    \A i \in 1..Len(calls) :
        LET ps == PostsOf(i)
            k == Len(ps)
        IN /\ calls[i].result = "RequestException" =>
                /\ k = MAX_RETRIES
                /\ \A j \in 1..k : Failed(ps[j])
           /\ calls[i].result = "returned" =>
                /\ k \in 1..MAX_RETRIES
                /\ ~Failed(ps[k])
                /\ \A j \in 1..(k - 1) : Failed(ps[j])
           /\ calls[i].result = "running" =>
                /\ i = Len(calls)
                /\ k = attempt
                /\ k < MAX_RETRIES
                /\ \A j \in 1..k : Failed(ps[j])

C1_Witness ==
    /\ MAX_RETRIES = 3
    /\ Len(calls) = 2
    /\ calls[1].result = "returned"
    /\ Len(PostsOf(1)) = 2
    /\ calls[2].result = "RequestException"
    /\ Len(PostsOf(2)) = 3
    /\ \E j \in 1..3 : PostsOf(2)[j].outcome = "transport"
    /\ \E j \in 1..3 : PostsOf(2)[j].outcome = "non2xx"

RECURSIVE Concat(_)
Concat(qs) == IF qs = <<>> THEN <<>> ELSE Head(qs) \o Concat(Tail(qs))

CallBatches == [i \in 1..Len(calls) |-> calls[i].batch]

\* C4: outside dry-run and as long as no delivery has failed, the calls of
\* _send_single_batch are one per batch, carry the indices 0, 1, 2, ... in
\* order, and their batches concatenate to the records pulled so far, which
\* at the return are the whole stream in order; 2500 records give three
\* calls of 1000, 1000 and 500 records.
C4_OneCallPerBatchInOrder ==
    (~dry_run /\ exc = "none") =>
        /\ Len(calls) = total_batches
        /\ \A i \in 1..Len(calls) : calls[i].batch_index = i - 1
        /\ Concat(CallBatches) = SubSeq(iterable, 1, it_pos)
        /\ spc = "returned" =>
             /\ Concat(CallBatches) = iterable
             /\ \A i \in 1..Len(calls) : Len(PostsOf(i)) >= 1
             /\ Len(iterable) = 2500 =>
                  [i \in 1..Len(calls) |-> Len(calls[i].batch)] = <<1000, 1000, 500>>

C4_Witness ==
    /\ ~dry_run
    /\ spc = "returned"
    /\ Len(iterable) = 2500
    /\ Len(calls) = 3
    /\ \A i \in 1..3 : calls[i].result = "returned" /\ calls[i].batch_index = i - 1

\* The indices of the calls of _send_single_batch that ended in the
\* transport error.
FatalCalls == {i \in 1..Len(calls) : calls[i].result = "RequestException"}

Acknowledged(i) == \E j \in 1..Len(PostsOf(i)) : ~Failed(PostsOf(i)[j])

\* C27 as stated: when the delivery of a batch has failed for good and
\* send_data_to_cxm has ended, the batches before it are acknowledged and
\* the batches after it have been sent: every batch of the stream has had
\* its call.
C27_FailureLeavesOthersSent ==
    (Finished /\ FatalCalls # {}) =>
        /\ \A k \in FatalCalls : \A i \in 1..(k - 1) : Acknowledged(i)
        /\ Len(calls) = Ceil(Len(iterable), BATCH_SIZE)

\* C27: when the delivery of a batch has failed for good, the batches
\* before it are acknowledged and stay so, and the batches after it are not
\* sent: the failed call is the last one, no record after its batch is
\* pulled and send_data_to_cxm ends in the error.
C27_FailureStopsTheStream ==
    \A k \in FatalCalls :
        /\ \A i \in 1..(k - 1) : calls[i].result = "returned" /\ Acknowledged(i)
        /\ k = Len(calls)
        /\ \A j \in 1..Len(posts) : posts[j].batch_index <= calls[k].batch_index
        /\ it_pos = Len(Concat(CallBatches))
        /\ spc = "raised"

\* The first batch of three was acknowledged, the second failed for good,
\* the third was never pulled.
C27_Witness ==
    /\ Len(iterable) = 2500
    /\ FatalCalls = {2}
    /\ Acknowledged(1)
    /\ it_pos = 2000
    /\ spc = "raised"

\* The batch indices whose POSTs have failed MAX_RETRIES times.
Exhausted ==
    {b \in 0..(total_batches - 1) :
        Len(SelectSeq(posts, LAMBDA p : p.batch_index = b /\ Failed(p))) >= MAX_RETRIES}

\* C28: when batch k has exhausted its retries, send_data_to_cxm has raised
\* the transport error, each batch before k has had exactly one successful
\* POST, batch k none, and no POST for a batch follows a POST for a later
\* batch or a successful POST for the same batch.
C28_ExhaustedRetriesRaise ==
    /\ \A b \in Exhausted :
          /\ spc = "raised"
          /\ exc = "RequestException"
          /\ calls[b + 1].result = "RequestException"
          /\ b + 1 = Len(calls)
          /\ \A i \in 1..b :
                Len(SelectSeq(PostsOf(i), LAMBDA p : ~Failed(p))) = 1
          /\ \A j \in 1..Len(PostsOf(b + 1)) : Failed(PostsOf(b + 1)[j])
    /\ \A j, l \in 1..Len(posts) :
          j < l => /\ posts[j].batch_index <= posts[l].batch_index
                   /\ ~Failed(posts[j]) => posts[j].batch_index < posts[l].batch_index

\* The third batch failed three times after the first two had each been
\* acknowledged, the first at its second POST.
C28_Witness ==
    /\ MAX_RETRIES = 3
    /\ Exhausted = {2}
    /\ spc = "raised"
    /\ exc = "RequestException"
    /\ Len(PostsOf(1)) = 2
    /\ Len(PostsOf(2)) = 1
    /\ Len(PostsOf(3)) = 3

\* C30: whatever integer CXM_MAX_RETRIES holds, zero and negative ones
\* included, MAX_RETRIES is max(1, value) and at least 1; every call of
\* _send_single_batch that got past the configuration check and has ended
\* made at least one POST, and one that returned had a POST acknowledged.
C30_AtLeastOneAttempt ==
    /\ MAX_RETRIES >= 1
    /\ MAX_RETRIES >= CXM_MAX_RETRIES
    /\ MAX_RETRIES \in {1, CXM_MAX_RETRIES}
    /\ \A i \in 1..Len(calls) :
          /\ calls[i].result \in {"returned", "RequestException"} => Len(PostsOf(i)) >= 1
          /\ calls[i].result = "returned" => Acknowledged(i)

\* With CXM_MAX_RETRIES = -1 the first batch was acknowledged at its only
\* POST and the second failed for good at its only POST.
C30_Witness ==
    /\ CXM_MAX_RETRIES = -1
    /\ MAX_RETRIES = 1
    /\ Len(calls) = 2
    /\ calls[1].result = "returned"
    /\ Len(PostsOf(1)) = 1
    /\ calls[2].result = "RequestException"
    /\ Len(PostsOf(2)) = 1

\* The records of the batches whose _send_single_batch has ended.
FinishedRecords ==
    Concat([i \in 1..Len(SelectSeq(calls, LAMBDA c : c.result # "running")) |->
               SelectSeq(calls, LAMBDA c : c.result # "running")[i].batch])

\* C26: the records pulled from the stream and not in a batch whose
\* delivery has ended are at most batch_size; while a batch is being
\* delivered it is the last one pulled and nothing of the next batch has
\* been pulled; at a normal return the whole stream has been pulled, each
\* record once.
C26_AtMostOneBatchPulledAhead ==
    /\ dry_run => it_pos = total_resources
    /\ ~dry_run =>
          /\ it_pos - Len(FinishedRecords) <= batch_size
          /\ Concat(CallBatches) = SubSeq(iterable, 1, it_pos)
          /\ \A i \in 1..Len(calls) : calls[i].result = "running" => i = Len(calls)
    /\ spc = "returned" =>
          /\ it_pos = Len(iterable)
          /\ total_resources = Len(iterable)

\* The second batch is being delivered and the last 500 records have not
\* been pulled.
C26_Witness ==
    /\ ~dry_run
    /\ spc = "post"
    /\ Len(iterable) = 2500
    /\ Len(calls) = 2
    /\ calls[1].result = "returned"
    /\ calls[2].result = "running"
    /\ it_pos = 2000
    /\ Len(FinishedRecords) = 1000

----------------------------------------------------------------------------
(* The pipeline of one entry point *)

\* Records of a state: two well-formed ones, one with a sensitive value,
\* and three malformed ones (no address, no values, no arn).
GoodResource(id) ==
    [address |-> Str("x"), type |-> Str("y"),
     values |-> Map([arn |-> Str("arn"), id |-> Num(id)])]

MarkedResource ==
    [address |-> Str("x"),
     values |-> Map([arn |-> Str("arn"), tags |-> Str("x")]),
     sensitive_values |-> Map([tags |-> Bool(TRUE)])]

NoAddress == [values |-> Map([arn |-> Str("arn"), id |-> Num(3)])]
NoValues == [address |-> Str("x"), type |-> Str("y")]
NoArn == [address |-> Str("x"), values |-> Map([id |-> Num(4)])]

PipeResources ==
    {GoodResource(1), GoodResource(2), MarkedResource, NoAddress, NoValues, NoArn}

PipeModules ==
    LET leaves == {[resources |-> rs] : rs \in SeqsOver(PipeResources, MaxPipeResources - 1)}
        roots == SeqsOver(PipeResources, MaxPipeResources)
    IN {[resources |-> rs] : rs \in roots}
         \cup {[resources |-> rs, child_modules |-> <<c>>] : rs \in roots, c \in leaves}

ShowData ==
    {<<>>, [format_version |-> Str("x")], [values |-> <<>>],
     [values |-> [root_module |-> Null]]}
      \cup {[values |-> [root_module |-> m]] : m \in PipeModules}

PipeSensitive == {<<>>, <<"id">>, <<"ar">>}

PipeInit ==
    /\ CliIdle
    /\ FindIdle
    /\ \E extra \in PipeSensitive : SENSITIVE_FIELDS = <<"public_key">> \o extra
    /\ resource = None
    /\ redacted = None
    /\ again = None
    /\ rpc = "idle"
    /\ ProjectIdle
    /\ FlattenIdle
    /\ SendIdle
    /\ RepoIdle
    /\ show_data \in ShowData
    /\ unnested = None
    /\ selected = None
    /\ qpc = "start"

PipeNext == UnnestTfShow \/ ProcessShowOutput

SpecPipeline == PipeInit /\ [][PipeNext]_vars

\* The root module of the state, None when the state names none.
RootOf(sd) ==
    IF "values" \in DOMAIN sd /\ "root_module" \in DOMAIN sd["values"]
    THEN sd["values"]["root_module"]
    ELSE None

RECURSIVE CountResources(_)
CountResources(module) ==
    LET cs == child_modules(module)
    IN Len(module["resources"])
         + (IF cs = <<>> THEN 0
            ELSE CountResources(Head(cs))
                   + CountResources([resources |-> <<>>, child_modules |-> Tail(cs)]))

\* The resources of a module tree in the order of the flattening.
RECURSIVE TreeResources(_)
TreeResources(module) ==
    LET cs == child_modules(module)
    IN module["resources"]
         \o (IF cs = <<>> THEN <<>>
             ELSE TreeResources(Head(cs))
                    \o TreeResources([resources |-> <<>>, child_modules |-> Tail(cs)]))

WellFormed(r) ==
    /\ "address" \in DOMAIN r
    /\ "values" \in DOMAIN r
    /\ "arn" \in DOMAIN r["values"].m

\* C17: process_show_output over a module tree raises nothing whatever
\* malformed records (no address, no values, no values.arn) the tree holds,
\* and emits the projection of the redaction of every other record, in order.
C17_MalformedRecordDropped ==
    (qpc = "done" /\ ~check_sensitive_fields_config_raises
                  /\ RootOf(show_data) \notin {None, Null}) =>
        LET kept == SelectSeq(TreeResources(RootOf(show_data)), WellFormed)
        IN selected = Stream([i \in 1..Len(kept) |->
                                 select_new_resource(remove_sensitive_data(kept[i]))],
                             "none")

\* C13: under a configuration the self-check accepts, unnest_tf_show over
\* a state without values, without root_module or with a null root_module
\* yields no record and raises nothing; over a state with a root module it
\* yields the flattening of that module tree, one record per resource when
\* nothing raises.
C13_EmptyStateYieldsNothing ==
    (qpc # "start" /\ ~check_sensitive_fields_config_raises) =>
        LET root == RootOf(show_data) IN
        /\ root \in {None, Null} => unnested = EmptyStream
        /\ root \notin {None, Null} =>
             /\ unnested = recursive_unnest_child_modules(root)
             /\ unnested.exc = "none" => Len(unnested.out) = CountResources(root)

C13_Witness ==
    /\ qpc = "done"
    /\ "values" \in DOMAIN show_data
    /\ RootOf(show_data) = Null
    /\ unnested = EmptyStream

----------------------------------------------------------------------------
(* A scan of a repository *)

\* States of an entry point: no state, one record, a record without values
\* (its redaction raises), a record followed by one without arn.
RepoShowData ==
    {<<>>,
     [values |-> [root_module |-> [resources |-> <<GoodResource(1)>>]]],
     [values |-> [root_module |-> [resources |-> <<NoValues>>]]],
     [values |-> [root_module |-> [resources |-> <<GoodResource(2), NoArn>>]]]}

ToolOutcomes ==
    {ToolRaises(e) : e \in ToolErrors} \cup {ToolReturns(sd) : sd \in RepoShowData}

RepoSensitive == {<<>>, <<"ar">>, <<"values">>}

RepoInit ==
    /\ CliIdle
    /\ FindIdle
    /\ \E extra \in RepoSensitive : SENSITIVE_FIELDS = <<"public_key">> \o extra
    /\ resource = None
    /\ redacted = None
    /\ again = None
    /\ rpc = "idle"
    /\ ProjectIdle
    /\ FlattenIdle
    /\ PipeIdle
    /\ CXM_API_KEY \in {"", "key"}
    /\ CXM_API_ENDPOINT \in {"", "https://api"}
    /\ CXM_MAX_RETRIES \in 1..2
    /\ MAX_RETRIES = max_retries(CXM_MAX_RETRIES)
    /\ dry_run \in BOOLEAN
    /\ iterable = <<>>
    /\ iter_exc = "none"
    /\ it_pos = 0
    /\ batch_size = BATCH_SIZE
    /\ batches = <<>>
    /\ batch = <<>>
    /\ batch_idx = -1
    /\ total_resources = 0
    /\ total_batches = 0
    /\ attempt = 0
    /\ calls = <<>>
    /\ posts = <<>>
    /\ exc = "none"
    /\ spc = "idle"
    /\ scan_metadata = None
    /\ platform \in {"generic", "bitbucket"}
    /\ entry_points \in SeqsOver(ToolOutcomes, MaxEntryPoints)
    /\ ep_idx = 0
    /\ entry_points_found = 0
    /\ entry_points_processed = 0
    /\ errors = 0
    /\ metadata_created = 0
    /\ send_calls = <<>>
    /\ repo_exc = "none"
    /\ mpc = "start"

RepoNext == RepoStart \/ RepoEntry \/ SendStart \/ SendNextBatch \/ Post \/ RepoAfterSend

SpecRepo == RepoInit /\ [][RepoNext]_vars

Supported == platform \in SUPPORTED_PLATFORMS

\* The entry points taken so far whose handling failed: the planning tool
\* raised, or send_data_to_cxm over the pipeline raised.
FailedEntries ==
    {i \in 1..ep_idx :
        \/ entry_points[i].kind # "ok"
        \/ \E j \in DOMAIN send_calls :
               send_calls[j].entry = i /\ send_calls[j].result = "raised"}

\* The records acknowledged during the j-th call of send_data_to_cxm.
Delivered(j) ==
    LET acked == SelectSeq(SubSeq(posts, send_calls[j].posts_before + 1,
                                  send_calls[j].posts_after),
                           LAMBDA p : p.outcome = "2xx")
    IN Concat([i \in 1..Len(acked) |-> acked[i].payload.resources])

\* C14: the scan stops before the last entry point only on the planning
\* tool's CalledProcessError; every other failure is counted, every state
\* the tool returned is handed to send_data_to_cxm, an entry point whose
\* delivery returned has had all its records acknowledged, and after the
\* last entry point the call raises exactly when some entry point failed.
C14_ContinuesAfterFailure ==
    Supported =>
        /\ (mpc = "raised" /\ ep_idx < Len(entry_points)) =>
              (ep_idx > 0 /\ entry_points[ep_idx].kind = "CalledProcessError")
        /\ mpc = "returned" => (ep_idx = Len(entry_points) /\ FailedEntries = {})
        /\ (mpc = "raised" /\ ep_idx > 0
                /\ entry_points[ep_idx].kind # "CalledProcessError") =>
              (ep_idx = Len(entry_points) /\ FailedEntries # {})
        /\ mpc \in {"loop", "returned", "raised"} =>
              /\ errors = Cardinality(FailedEntries \ {i \in 1..ep_idx :
                                          entry_points[i].kind = "CalledProcessError"})
              /\ \A i \in 1..ep_idx : entry_points[i].kind = "ok" =>
                     \E j \in DOMAIN send_calls : send_calls[j].entry = i
        /\ \A j \in DOMAIN send_calls :
              (send_calls[j].result = "returned" /\ ~dry_run) =>
                  Delivered(j) = process_show_output(entry_points[send_calls[j].entry].show).out

\* The delivery of the first entry point fails, the second is delivered,
\* and the call raises at the end.
C14_Witness ==
    /\ ~dry_run
    /\ Len(entry_points) = 2
    /\ Len(send_calls) = 2
    /\ send_calls[1].result = "raised"
    /\ send_calls[1].exc = "RequestException"
    /\ send_calls[2].result = "returned"
    /\ Delivered(2) # <<>>
    /\ mpc = "raised"
    /\ errors = 1

\* C15: whenever process_repository raises because an entry point failed,
\* the exception is a RuntimeError ("errors occured when scanning tf repo").
C15_RaisesRuntimeError ==
    (Supported /\ mpc = "raised") => repo_exc = "RuntimeError"

\* C16: once the planning tool has failed for an entry point (terraform
\* init or show exits with an error, or times out), the scan has raised
\* and no later entry point is taken.
C16_ToolFailureAborts ==
    \A i \in 1..ep_idx :
        entry_points[i].kind \in {"CalledProcessError", "TimeoutExpired"} =>
            (mpc = "raised" /\ ep_idx = i)

IdentityNameSensitive ==
    \E field \in {"arn", "values", "address"} : is_key_sensitive(field)

\* C18: when the pattern set classifies "arn", "values" or "address" as
\* sensitive, every pipeline handed to send_data_to_cxm raises
\* SensitiveKeyError before its first record, so that no batch is built, no
\* POST is made and no entry point is processed; otherwise no pipeline
\* raises SensitiveKeyError.
C18_SelfCheckRejectsConfig ==
    /\ IdentityNameSensitive =>
          /\ posts = <<>>
          /\ calls = <<>>
          /\ entry_points_processed = 0
          /\ total_resources = 0
          /\ mpc = "send" => (iterable = <<>> /\ iter_exc = "SensitiveKeyError")
    /\ ~IdentityNameSensitive =>
          /\ mpc = "send" => iter_exc # "SensitiveKeyError"
          /\ \A j \in DOMAIN send_calls : send_calls[j].exc # "SensitiveKeyError"

C18_Witness ==
    /\ IdentityNameSensitive
    /\ ~dry_run
    /\ CXM_API_KEY # ""
    /\ CXM_API_ENDPOINT # ""
    /\ Len(send_calls) = 2
    /\ \A j \in 1..2 : send_calls[j].exc = "SensitiveKeyError"
    /\ entry_points[1].show # <<>>
    /\ mpc = "raised"

\* C20: create_scan_metadata has returned once as soon as the loop over the
\* entry points starts and never again, and every POST made, for every
\* batch of every entry point, carries that scan_metadata, its
\* scan_timestamp as the payload's scan_timestamp, and schema_version 0.
C20_OneScanMetadata ==
    /\ mpc = "start" => (metadata_created = 0 /\ entry_points_found = 0 /\ posts = <<>>)
    /\ (Supported /\ mpc # "start") =>
          /\ metadata_created = 1
          /\ \A i \in DOMAIN posts :
                /\ posts[i].payload.scan_metadata = scan_metadata
                /\ posts[i].payload.scan_timestamp = scan_metadata.scan_timestamp
                /\ posts[i].payload.schema_version = 0

\* POSTs of two entry points, one of them retried.
C20_Witness ==
    /\ mpc = "returned"
    /\ Len(send_calls) = 2
    /\ send_calls[1].posts_after = 2
    /\ send_calls[2].posts_after = 3
    /\ scan_metadata.run_id = 2

----------------------------------------------------------------------------
(* Discovery of the entry points of a repository *)

\* Directory names: the excluded ones and an ordinary one.
DirNames == EXCLUDED_DIRS \cup {"prod"}

\* Roots, one of them with excluded names among its own components.
Roots == {<<"repo">>, <<"modules", ".git">>}

\* The directories under the root that hold a lock file: at most two, one
\* of them at any depth up to MaxDepth.
LockDirs ==
    {{}} \cup {{p, q} : p \in SeqsOver(DirNames, MaxDepth), q \in SeqsOver(DirNames, 1)}

FindInit ==
    /\ RedactIdle
    /\ ProjectIdle
    /\ FlattenIdle
    /\ SendIdle
    /\ RepoIdle
    /\ PipeIdle
    /\ CliIdle
    /\ root_path \in Roots
    /\ root_kind \in {"dir", "file", "missing"}
    /\ \E dirs \in LockDirs :
         /\ root_kind # "dir" => dirs = {}
         /\ lock_files = {root_path \o d \o <<LockFileName>> : d \in dirs}
    /\ unvisited = {}
    /\ yielded = <<>>
    /\ find_exc = "none"
    /\ gpc = "start"

FindNextStep == FindStart \/ FindNext

SpecFind == FindInit /\ [][FindNextStep]_vars

\* The directories under the root that hold a lock file and have none of
\* the excluded names among their components below the root.
EntryPointDirs ==
    {parent(f) : f \in
        {l \in lock_files :
            \A i \in (Len(root_path) + 1)..(Len(l) - 1) :
                l[i] \notin {".terraform", "modules", ".git", ".hidden", "__pycache__",
                             ".pytest_cache", ".venv", "node_modules"}}}

\* C22: find_terraform_lock_files yields only directories at or under the
\* root that hold a .terraform.lock.hcl file and have no excluded name among
\* their components relative to the root, none of them twice, and when it
\* ends it has yielded every such directory.
C22_YieldsExactlyTheEntryPoints ==
    /\ \A i \in 1..Len(yielded) :
          /\ yielded[i] \in EntryPointDirs
          /\ SubSeq(yielded[i], 1, Len(root_path)) = root_path
          /\ \A j \in 1..Len(yielded) : yielded[j] = yielded[i] => j = i
    /\ gpc = "done" => {yielded[i] : i \in 1..Len(yielded)} = EntryPointDirs
    /\ gpc = "raised" => yielded = <<>>

\* Under a root that is itself inside a directory named modules: the lock
\* file of the root is found, the one under .terraform/prod is not.
C22_Witness ==
    /\ gpc = "done"
    /\ root_path = <<"modules", ".git">>
    /\ lock_files = {root_path \o <<LockFileName>>,
                     root_path \o <<".terraform", "prod", LockFileName>>}
    /\ yielded = <<root_path>>

----------------------------------------------------------------------------
(* A run of the command line *)

CliInit ==
    /\ RedactIdle
    /\ ProjectIdle
    /\ FlattenIdle
    /\ PipeIdle
    /\ FindIdle
    /\ CXM_API_KEY = "key"
    /\ CXM_API_ENDPOINT = "https://api"
    /\ CXM_MAX_RETRIES = 1
    /\ MAX_RETRIES = max_retries(CXM_MAX_RETRIES)
    /\ dry_run = FALSE
    /\ iterable = <<>>
    /\ iter_exc = "none"
    /\ it_pos = 0
    /\ batch_size = BATCH_SIZE
    /\ batches = <<>>
    /\ batch = <<>>
    /\ batch_idx = -1
    /\ total_resources = 0
    /\ total_batches = 0
    /\ attempt = 0
    /\ calls = <<>>
    /\ posts = <<>>
    /\ exc = "none"
    /\ spc = "idle"
    /\ scan_metadata = None
    /\ platform = ""
    /\ entry_points \in SeqsOver(ToolOutcomes, MaxEntryPoints)
    /\ ep_idx = 0
    /\ entry_points_found = 0
    /\ entry_points_processed = 0
    /\ errors = 0
    /\ metadata_created = 0
    /\ send_calls = <<>>
    /\ repo_exc = "none"
    /\ mpc = "idle"
    /\ repository_path \in {"dir", "file", "missing"}
    /\ platform_hint \in {"", "GitLab", "bitbucket"}
    /\ exit_code = -1
    /\ cpc = "start"

CliNext ==
    \/ CliStart
    \/ RepoStart
    \/ RepoEntry
    \/ SendStart
    \/ SendNextBatch
    \/ Post
    \/ RepoAfterSend
    \/ KeyboardInterrupt
    \/ CliReturn

SpecCli == CliInit /\ [][CliNext]_vars

Exited == cpc = "exited"

Interrupted == repo_exc = "KeyboardInterrupt"

\* C21: when main has returned: a run with a failed entry point has a
\* non-zero exit code, also when other entry points were delivered; an
\* interrupted run has 130; the exit code is 0 only if process_repository
\* returned and no entry point failed.
C21_ExitCodeSignalsFailure ==
    Exited =>
        /\ FailedEntries # {} => exit_code # 0
        /\ Interrupted => exit_code = 130
        /\ exit_code = 0 => (mpc = "returned" /\ FailedEntries = {} /\ errors = 0)
        /\ (mpc = "returned" /\ FailedEntries = {}) => exit_code = 0

\* The first entry point was delivered, the delivery of the second failed,
\* and main returned 1.
C21_Witness ==
    /\ Exited
    /\ ep_idx = 2
    /\ FailedEntries = {2}
    /\ entry_points[2].kind = "ok"
    /\ Len(Delivered(1)) = 1
    /\ ~Interrupted
    /\ exit_code = 1

----------------------------------------------------------------------------
(* Two runs of the pipeline on states that differ in secrets only *)

\* The values a secret field can hold.
Secrets == {Str("x"), Str("y")}

\* Resources with a field that is sensitive by name once "id" is a
\* pattern, and a field that the marker, when it is a mapping, marks true.
LeakResources ==
    {[address |-> Str("x"), values |-> Map([arn |-> Str("arn"), id |-> i, tags |-> t])] :
        i \in Secrets, t \in Secrets}
      \cup {[address |-> Str("x"), values |-> Map([arn |-> Str("arn"), id |-> i, tags |-> t]),
             sensitive_values |-> m] :
                i \in Secrets, t \in Secrets,
                m \in {Map([tags |-> Bool(TRUE)]), EmptyDict, Bool(FALSE), Null}}

LeakShowData ==
    {[values |-> [root_module |-> [resources |-> <<r>>]]] : r \in LeakResources}
      \cup {[values |-> [root_module |-> [resources |-> <<GoodResource(1), r>>]]] :
                r \in LeakResources}

LeakInit ==
    /\ CliIdle
    /\ FindIdle
    /\ resource = None
    /\ redacted = None
    /\ again = None
    /\ rpc = "idle"
    /\ ProjectIdle
    /\ FlattenIdle
    /\ SendIdle
    /\ RepoIdle
    /\ \E extra \in {<<>>, <<"id">>} : SENSITIVE_FIELDS = <<"public_key">> \o extra
    /\ show_data \in LeakShowData
    /\ unnested = None
    /\ selected = None
    /\ qpc = "start"

LeakNext == UnnestTfShow \/ ProcessShowOutput

SpecLeak == LeakInit /\ [][LeakNext]_vars

\* The value tree with every field the marker marks true blanked.
RECURSIVE MaskMarked(_, _)
MaskMarked(v, m) ==
    IF m = Bool(TRUE) THEN Str("?")
    ELSE IF m.k = "map" /\ v.k = "map"
    THEN Map([key \in DOMAIN v.m |->
                 IF key \in DOMAIN m.m THEN MaskMarked(v.m[key], m.m[key]) ELSE v.m[key]])
    ELSE IF m.k = "list" /\ v.k = "list"
    THEN List([i \in 1..Len(v.q) |->
                  IF i <= Len(m.q) THEN MaskMarked(v.q[i], m.q[i]) ELSE v.q[i]])
    ELSE v

\* The values with the top-level fields that are sensitive by name blanked.
MaskNames(v) ==
    IF v.k = "map"
    THEN Map([key \in DOMAIN v.m |-> IF is_key_sensitive(key) THEN Str("?") ELSE v.m[key]])
    ELSE v

\* What of a state is not secret: its resources with the marked fields and
\* the top-level fields that are sensitive by name blanked.
LowView(sd) ==
    LET rs == sd["values"]["root_module"]["resources"]
    IN [i \in 1..Len(rs) |->
           IF "values" \in DOMAIN rs[i]
           THEN [rs[i] EXCEPT !["values"] =
                    MaskNames(MaskMarked(rs[i]["values"], MarkerOf(rs[i])))]
           ELSE rs[i]]

\* The resources of the POST payloads send_data_to_cxm makes for a stream
\* when every POST is acknowledged: its batches, up to where the stream
\* raises.
RECURSIVE PostedFrom(_, _)
PostedFrom(s, pos) ==
    LET b == islice(s.out, pos, BATCH_SIZE)
    IN IF s.exc # "none" /\ pos + BATCH_SIZE > Len(s.out) THEN <<>>
       ELSE IF batch_exhausted(b) THEN <<>>
       ELSE <<b>> \o PostedFrom(s, pos + Len(b))

\* C29: two runs of the pipeline on states that differ only in the values
\* of fields the marker marks true or that are sensitive by name at the top
\* level of values send the same sequence of payload resources.
C29_SecretsDoNotReachPayloads ==
    qpc = "done" =>
        \A other \in LeakShowData :
            LowView(other) = LowView(show_data)
                => PostedFrom(process_show_output(other), 0) = PostedFrom(selected, 0)

====
